---- MODULE Spec2Model ----
(***************************************************************************)
(* Real-time session engine of the meeting platform: the Socket.IO event   *)
(* handlers of server.py over the room registry, and the per-room audio    *)
(* transcription pipeline of transcription.py, with the scoring functions  *)
(* of sentiment_analysis.py, engagement.py and network_adaptation.py.      *)
(*                                                                         *)
(* Numbers: every score, attention value, packet-loss ratio and speaking   *)
(* time is a fixed-point integer in units of 1/SCALE (0.5 is 500); a       *)
(* division rounds down.  Texts are strings, read character by character.  *)
(* Audio bytes are run-length sequences <<[b, n]>> (n copies of byte b).   *)
(***************************************************************************)
EXTENDS Integers, Sequences, FiniteSets, TLC

VARIABLES
    rooms,          \* server.rooms: room key -> set of connection ids
    room_data,      \* server.room_data: room key -> per-room record
    sio_rooms,      \* Socket.IO room membership kept by join_room / leave_room
    connected,      \* connection ids whose socket is open
    trans_rooms,    \* transcription.rooms: room key -> [transcript, chunk_queue]
    audio_workers,  \* transcription.audio_workers: room key -> worker thread id
    workers,        \* running worker threads: id -> [room, buffer, last_flush, wait_start]
    starters,       \* callers inside start_transcription_worker: id -> [pc, room, thread]
    handlers,       \* join/leave/disconnect handler running for a connection, statement
                    \* by statement: id -> [op, pc, room, todo, joined]
    now,            \* time.time(), whole seconds
    out,            \* messages delivered by the latest handler or worker step
    last,           \* the latest event: [kind, sid, room, arg]; a join's arg is the
                    \* room's membership before it
    closed          \* room keys that were deleted at least once

vars == <<rooms, room_data, sio_rooms, connected, trans_rooms, audio_workers,
          workers, starters, handlers, now, out, last, closed>>

serverVars == <<rooms, room_data, sio_rooms, connected, closed, handlers>>
audioVars == <<trans_rooms, audio_workers, workers, starters>>

(***************************************************************************)
(* Bounds of the model and the input sets the events are drawn from.       *)
(***************************************************************************)
Conns == {"c1", "c2", "c3"}
RoomKeys == {"r1", "r2"}
None == "None"

MaxActivity == 2
MaxTime == 5
MaxChunks == 2
MaxWorkers == 2

\* the fixed-point unit: 1.0 is SCALE
SCALE == 10 * 100

\* ---------------------------------------------------------------- dicts
EmptyFn == [x \in {} |-> 0]

Put(f, k, v) == [x \in (DOMAIN f) \cup {k} |-> IF x = k THEN v ELSE f[x]]

Del(f, k) == [x \in (DOMAIN f) \ {k} |-> f[x]]

\* a minimum that always takes its second argument
Min_Second(a, b) == b

Min(a, b) == IF a <= b THEN a ELSE b

Max(a, b) == IF a >= b THEN a ELSE b

\* sum(s), adding up the two halves of the sequence
RECURSIVE SumSeq(_)
SumSeq(s) ==
    IF Len(s) = 0 THEN 0
    ELSE IF Len(s) = 1 THEN s[1]
    ELSE SumSeq(SubSeq(s, 1, Len(s) \div 2)) + SumSeq(SubSeq(s, Len(s) \div 2 + 1, Len(s)))

\* sum(f[k] for k in keys)
RECURSIVE SumOver(_, _)
SumOver(f, keys) ==
    IF keys = {} THEN 0
    ELSE LET k == CHOOSE x \in keys : TRUE IN f[k] + SumOver(f, keys \ {k})

\* a slice that keeps the first n elements
LastN_First(s, n) == IF Len(s) <= n THEN s ELSE SubSeq(s, 1, n)

\* s[-n:]
LastN(s, n) == IF Len(s) <= n THEN s ELSE SubSeq(s, Len(s) - n + 1, Len(s))

\* ---------------------------------------------------------------- text
Char(s, i) == SubSeq(s, i, i)

UpperChars == "ABCDEFGHIJKLMNOPQRSTUVWXYZ"

LowerChars == "abcdefghijklmnopqrstuvwxyz"

DigitChars == "0123456789_"

Whitespace == {" ", "\t", "\n"}

CharsOf(s) == {Char(s, i) : i \in 1..Len(s)}

UpperSet == CharsOf(UpperChars)

\* the characters the regular expression class \w matches
WordChars == UpperSet \cup CharsOf(LowerChars) \cup CharsOf(DigitChars)

\* what [^\w\s] does not match
KeptChars == WordChars \cup Whitespace

LowerChar(c) ==
    IF c \in UpperSet
    THEN Char(LowerChars, CHOOSE i \in 1..Len(UpperChars) : Char(UpperChars, i) = c)
    ELSE c

\* str.lower(): every character lowered, the two halves of the text one after the other
RECURSIVE str_lower(_)
str_lower(s) ==
    IF Len(s) = 0 THEN ""
    ELSE IF Len(s) = 1 THEN LowerChar(s)
    ELSE str_lower(SubSeq(s, 1, Len(s) \div 2))
         \o str_lower(SubSeq(s, Len(s) \div 2 + 1, Len(s)))

\* re.sub(r'[^\w\s]', ' ', text)
RECURSIVE sub_punctuation(_)
sub_punctuation(s) ==
    IF Len(s) = 0 THEN ""
    ELSE IF Len(s) = 1 THEN (IF s \in KeptChars THEN s ELSE " ")
    ELSE sub_punctuation(SubSeq(s, 1, Len(s) \div 2))
         \o sub_punctuation(SubSeq(s, Len(s) \div 2 + 1, Len(s)))

\* the positions of s that hold a character other than whitespace
Inked(s) == {i \in 1..Len(s) : Char(s, i) \notin Whitespace}

\* the positions where a maximal run of non-whitespace characters starts
WordStarts(s) == {i \in Inked(s) : i = 1 \/ Char(s, i - 1) \in Whitespace}

\* the position where the run that starts at i ends
WordEnd(s, i) ==
    CHOOSE j \in i..Len(s) : /\ j = Len(s) \/ Char(s, j + 1) \in Whitespace
                             /\ \A k \in i..j : Char(s, k) \notin Whitespace

\* str.split(): the maximal runs of non-whitespace characters, in order
str_split(s) ==
    LET starts == WordStarts(s)
        nth(k) == CHOOSE i \in starts : Cardinality({j \in starts : j < i}) = k - 1
    IN [k \in 1..Cardinality(starts) |-> SubSeq(s, nth(k), WordEnd(s, nth(k)))]

\* str.lstrip(), str.rstrip() and str.strip()
str_lstrip(s) ==
    IF Len(s) = 0 \/ Char(s, 1) \notin Whitespace THEN s
    ELSE LET inked == Inked(s)
         IN IF inked = {} THEN ""
            ELSE SubSeq(s, CHOOSE i \in inked : \A j \in inked : i <= j, Len(s))

str_rstrip(s) ==
    IF Len(s) = 0 \/ Char(s, Len(s)) \notin Whitespace THEN s
    ELSE LET inked == Inked(s)
         IN IF inked = {} THEN ""
            ELSE SubSeq(s, 1, CHOOSE i \in inked : \A j \in inked : i >= j)

str_strip(s) == str_rstrip(str_lstrip(s))

\* s[:n]
Prefix(s, n) == IF Len(s) <= n THEN s ELSE SubSeq(s, 1, n)

\* ----------------------------------------------------- sentiment_analysis.py
POSITIVE_WORDS ==
    {"good", "great", "excellent", "amazing", "wonderful", "fantastic", "love", "like",
     "happy", "excited", "agree", "yes", "perfect", "awesome", "brilliant", "outstanding",
     "superb", "terrific", "marvelous", "fabulous", "incredible", "impressive", "positive",
     "successful", "effective", "efficient", "productive", "valuable", "beneficial",
     "helpful", "useful", "constructive", "innovative", "creative", "inspiring"}

NEGATIVE_WORDS ==
    {"bad", "terrible", "awful", "hate", "dislike", "sad", "angry", "frustrated",
     "disagree", "no", "wrong", "problem", "issue", "concern", "worried", "disappointed",
     "upset", "annoyed", "irritated", "confused", "difficult", "challenging", "impossible",
     "failure", "failed", "broken", "error", "mistake", "ineffective", "useless",
     "pointless", "waste", "boring", "tedious", "overwhelming", "stressful"}

\* the factors in tenths: 'very': 1.5 is 15
INTENSIFIERS ==
    [w \in {"very", "really", "extremely", "incredibly", "absolutely", "totally",
            "completely", "quite", "rather", "pretty", "so", "too", "highly", "deeply",
            "truly"} |->
        CASE w = "very" -> 15 [] w = "really" -> 14 [] w = "extremely" -> 18
          [] w = "incredibly" -> 17 [] w = "absolutely" -> 16 [] w = "totally" -> 15
          [] w = "completely" -> 16 [] w = "quite" -> 12 [] w = "rather" -> 11
          [] w = "pretty" -> 11 [] w = "so" -> 13 [] w = "too" -> 12
          [] w = "highly" -> 14 [] w = "deeply" -> 13 [] w = "truly" -> 14]

NEGATIONS ==
    {"not", "no", "never", "nothing", "nobody", "nowhere", "neither", "nor", "don't",
     "won't", "can't", "shouldn't", "wouldn't", "couldn't", "isn't", "aren't", "wasn't",
     "weren't"}

\* a loop that looks for a negation only in the word just before
word_sentiment_NegationOneBack(words, i) ==
    LET negated == i > 1 /\ words[i - 1] \in NEGATIONS
        intensifier == IF i > 1 /\ words[i - 1] \in DOMAIN INTENSIFIERS
                       THEN INTENSIFIERS[words[i - 1]] ELSE 10
        base == IF words[i] \in POSITIVE_WORDS THEN (SCALE * intensifier) \div 10
                ELSE IF words[i] \in NEGATIVE_WORDS THEN (0 - SCALE * intensifier) \div 10
                ELSE 0
    IN IF negated /\ base # 0 THEN (base * (0 - 8)) \div 10 ELSE base

\* the contribution of words[i] (the body of the while loop), in 1/SCALE
word_sentiment(words, i) ==
    LET negated == \E j \in Max(1, i - 2)..(i - 1) : words[j] \in NEGATIONS
        intensifier == IF i > 1 /\ words[i - 1] \in DOMAIN INTENSIFIERS
                       THEN INTENSIFIERS[words[i - 1]] ELSE 10
        base == IF words[i] \in POSITIVE_WORDS THEN (SCALE * intensifier) \div 10
                ELSE IF words[i] \in NEGATIVE_WORDS THEN (0 - SCALE * intensifier) \div 10
                ELSE 0
    IN IF negated /\ base # 0 THEN (base * (0 - 8)) \div 10 ELSE base

analyze_sentiment(text) ==
    IF Len(text) = 0 \/ Len(str_strip(text)) = 0 THEN 0
    ELSE LET words == str_split(sub_punctuation(str_lower(text)))
             contrib == [i \in 1..Len(words) |-> word_sentiment(words, i)]
             sentiment_score == SumSeq(contrib)
             word_count == Cardinality({i \in 1..Len(words) : contrib[i] # 0})
             normalized == IF word_count > 0 THEN sentiment_score \div word_count
                           ELSE sentiment_score
         IN IF words = <<>> THEN 0
            ELSE Max(0 - SCALE, Min(SCALE, normalized))

\* the room record after update_room_sentiment(room_data, text, speaker_id)
update_room_sentiment(rd, text, speaker_id, t) ==
    LET sentiment_entry == [timestamp |-> t, score |-> analyze_sentiment(text),
                            text |-> Prefix(text, 100), speaker |-> speaker_id]
        appended == Append(rd.sentiment_history, sentiment_entry)
    IN [rd EXCEPT !.sentiment_history =
            IF Len(appended) > 100 THEN LastN(appended, 100) ELSE appended]

\* an alert raised by the latest entry alone
detect_sentiment_alerts_LatestOnly(rd, threshold, consecutive_count) ==
    IF rd.sentiment_history # <<>>
       /\ rd.sentiment_history[Len(rd.sentiment_history)].score < threshold
    THEN [alert |-> TRUE, severity |-> "high"]
    ELSE [alert |-> FALSE, severity |-> ""]

detect_sentiment_alerts(rd, threshold, consecutive_count) ==
    LET recent_entries == LastN(rd.sentiment_history, consecutive_count)
        all_negative == \A i \in 1..Len(recent_entries) : recent_entries[i].score < threshold
        avg_score == SumSeq([i \in 1..Len(recent_entries) |-> recent_entries[i].score])
                     \div Len(recent_entries)
    IN IF Len(recent_entries) < consecutive_count THEN [alert |-> FALSE, severity |-> ""]
       ELSE IF all_negative
            THEN [alert |-> TRUE,
                  severity |-> IF avg_score < 0 - 700 THEN "high" ELSE "medium"]
            ELSE [alert |-> FALSE, severity |-> ""]

\* ------------------------------------------------------------ engagement.py
\* the room record after update_engagement(room_data, participant_id, activity_type, value)
update_engagement(rd, participant_id, activity_type, value, t) ==
    IF participant_id \notin DOMAIN rd.participants THEN rd
    ELSE LET p0 == [rd.participants[participant_id] EXCEPT !.last_activity = t]
             words_count == IF value = 0 THEN 1 ELSE value
             engagement_boost == Min(SCALE \div 10, (words_count * SCALE) \div 50)
             attention_score == IF value = 0 THEN SCALE \div 2 ELSE value
             p1 == CASE activity_type = "speaking" ->
                          [p0 EXCEPT !.engagement_score = Min(SCALE, @ + engagement_boost),
                                     !.speaking_time = @ + (words_count * SCALE) \div 2]
                     [] activity_type = "attention" ->
                          [p0 EXCEPT !.engagement_score =
                                         (@ * 8) \div 10 + (attention_score * 2) \div 10]
                     [] activity_type = "interaction" ->
                          [p0 EXCEPT !.engagement_score = Min(SCALE, @ + SCALE \div 20)]
                     [] OTHER -> p0
         IN [rd EXCEPT !.participants[participant_id] = p1]

\* sum(attention_scores) / len(attention_scores) if attention_scores else 0
AvgAttention(rd, sid) ==
    LET attention_scores == IF sid \in DOMAIN rd.attention_scores
                            THEN rd.attention_scores[sid] ELSE <<>>
    IN IF attention_scores # <<>> THEN SumSeq(attention_scores) \div Len(attention_scores)
       ELSE 0

\* the dict get_room_leaderboard appends for one participant (lines 53-64)
LeaderboardEntry(rd, sid) ==
    [sid |-> sid, name |-> rd.participants[sid].name,
     engagement_score |-> rd.participants[sid].engagement_score,
     speaking_time |-> rd.participants[sid].speaking_time,
     avg_attention |-> AvgAttention(rd, sid),
     last_activity |-> rd.participants[sid].last_activity]

\* list.sort(key=engagement_score, reverse=True) keeps equal scores in their order:
\* x goes behind the last entry whose score is not smaller
InsertByScore(sorted, x) ==
    LET k == Cardinality({i \in 1..Len(sorted) :
                             sorted[i].engagement_score >= x.engagement_score})
    IN SubSeq(sorted, 1, k) \o <<x>> \o SubSeq(sorted, k + 1, Len(sorted))

RECURSIVE SortByScoreFrom(_, _, _)
SortByScoreFrom(entries, i, sorted) ==
    IF i > Len(entries) THEN sorted
    ELSE SortByScoreFrom(entries, i + 1, InsertByScore(sorted, entries[i]))

\* a leaderboard that is left in the order of the participants dict
SortByEngagement_Unsorted(entries) == entries

\* participants.sort(key=lambda x: x["engagement_score"], reverse=True)
SortByEngagement(entries) == SortByScoreFrom(entries, 1, <<>>)

\* the title of the entry at 1-based position i of n (lines 71-77; the pictograph in
\* front of the two special titles is left out)
LeaderboardTitle(i, n) ==
    IF i = 1 /\ n > 1 THEN "Meeting Champ"
    ELSE IF i = n /\ n > 1 THEN "Silent Listener"
    ELSE "#" \o ToString(i) \o " Participant"

\* get_room_leaderboard(room_data); order is the order in which the participants
\* dict yields its keys
get_room_leaderboard(rd, order) ==
    LET participants == SortByEngagement([i \in 1..Len(order) |->
                                             LeaderboardEntry(rd, order[i])])
    IN [i \in 1..Len(participants) |->
           [sid |-> participants[i].sid, name |-> participants[i].name,
            engagement_score |-> participants[i].engagement_score,
            speaking_time |-> participants[i].speaking_time,
            avg_attention |-> participants[i].avg_attention,
            last_activity |-> participants[i].last_activity,
            title |-> LeaderboardTitle(i, Len(participants))]]

\* sum(p.get("speaking_time", 0) for p in participants.values())
TotalSpeaking(rd) ==
    SumOver([sid \in DOMAIN rd.participants |-> rd.participants[sid].speaking_time],
            DOMAIN rd.participants)

\* a share that is not scaled to a percentage
SpeakingPercentage_Fraction(speaking_time, total_speaking) ==
    IF total_speaking > 0 THEN (speaking_time * SCALE) \div total_speaking ELSE 0

\* (speaking_time / total_speaking * 100) if total_speaking > 0 else 0, in 1/SCALE
\* of a percent, rounded down once
SpeakingPercentage(speaking_time, total_speaking) ==
    IF total_speaking > 0 THEN (speaking_time * 100 * SCALE) \div total_speaking ELSE 0

get_speaking_distribution(rd) ==
    [sid \in DOMAIN rd.participants |->
        [time |-> rd.participants[sid].speaking_time,
         percentage |-> SpeakingPercentage(rd.participants[sid].speaking_time,
                                           TotalSpeaking(rd)),
         name |-> rd.participants[sid].name]]

\* the threshold_minutes=5 default of should_nudge_participant
DEFAULT_THRESHOLD_MINUTES == 5

\* a nudge for inactivity or low engagement alone
should_nudge_participant_Either(rd, participant_id, threshold_minutes, t) ==
    /\ participant_id \in DOMAIN rd.participants
    /\ \/ t - rd.participants[participant_id].last_activity > threshold_minutes * 60
       \/ rd.participants[participant_id].engagement_score < (3 * SCALE) \div 10

\* should_nudge_participant(room_data, participant_id, threshold_minutes) at time t
should_nudge_participant(rd, participant_id, threshold_minutes, t) ==
    IF participant_id \notin DOMAIN rd.participants THEN FALSE
    ELSE LET participant == rd.participants[participant_id]
             inactive_time == t - participant.last_activity
         IN inactive_time > threshold_minutes * 60
            /\ participant.engagement_score < (3 * SCALE) \div 10

\* ----------------------------------------------------- network_adaptation.py
\* dict.get(key, default)
Get(d, key, default) == IF key \in DOMAIN d THEN d[key] ELSE default

\* float(x or default)
OrDefault(x, default) == IF x = 0 THEN default ELSE x

\* a classifier that reads a missing field as 0
evaluate_network_NoDefaults(stats) ==
    LET rtt == Get(stats, "rtt", 0)
        loss == Get(stats, "packetLoss", 0)
        bw == Get(stats, "bandwidth", 0)
    IN IF loss >= 200 \/ bw < 100 THEN "captions-only"
       ELSE IF loss >= 100 \/ bw < 200 THEN "audio-only"
       ELSE IF rtt >= 300 \/ loss >= 50 \/ bw < 400 THEN "degrade-video"
       ELSE "normal"

\* loss in 1/SCALE, rtt in ms, bandwidth in kbps
evaluate_network(stats) ==
    LET rtt == OrDefault(Get(stats, "rtt", 0), 0)
        loss == OrDefault(Get(stats, "packetLoss", 0), 0)
        bw == OrDefault(Get(stats, "bandwidth", 1000), 1000)
    IN IF loss >= 200 \/ bw < 100 THEN "captions-only"
       ELSE IF loss >= 100 \/ bw < 200 THEN "audio-only"
       ELSE IF rtt >= 300 \/ loss >= 50 \/ bw < 400 THEN "degrade-video"
       ELSE "normal"

\* ------------------------------------------------------------------ server.py
\* defaultdict(set).__getitem__: a missing key is inserted with an empty set
TouchRooms(rs, r) == IF r \in DOMAIN rs THEN rs ELSE Put(rs, r, {})

\* the factory of room_data (server.py, lines 46-54)
NewRoomData(t) ==
    [transcript |-> <<>>, participants |-> EmptyFn, engagement |-> EmptyFn,
     sentiment_history |-> <<>>, meeting_start |-> t, network_stats |-> EmptyFn,
     attention_scores |-> EmptyFn]

\* defaultdict(lambda: {...}).__getitem__ on room_data
TouchRoomData(rd, r, t) == IF r \in DOMAIN rd THEN rd ELSE Put(rd, r, NewRoomData(t))

\* f"User {sid[:8]}"
DefaultName(sid) == "User " \o Prefix(sid, 8)

\* the display name a client sends with its join
DisplayName(sid) == "name-" \o sid

NewParticipant(sid, t) ==
    [name |-> DisplayName(sid), joined_at |-> t, last_activity |-> t, speaking_time |-> 0,
     engagement_score |-> SCALE \div 2, attention_scores |-> <<>>]

\* flask_socketio join_room / leave_room on the Socket.IO membership
join_room(sio, r, sid) == [sio EXCEPT ![r] = @ \cup {sid}]

leave_room(sio, r, sid) == [sio EXCEPT ![r] = @ \ {sid}]

\* an emit that reaches every connection whatever `to` names
Recipients_Everyone(sio, conn, to, sender, skip) == conn \ skip

\* The connections a flask_socketio emit reaches.  `to` is a room key (the room's
\* Socket.IO members), a connection id (its personal room) or None (emit without
\* to/room answers the sender); skip is the sender when include_self=False.
Recipients(sio, conn, to, sender, skip) ==
    LET members == IF to = None THEN {sender} \cap conn
                   ELSE IF to \in RoomKeys THEN sio[to] \cap conn
                   ELSE {to} \cap conn
    IN members \ skip

Emit(event, data, rcpts) == {[event |-> event, rcpt |-> x, data |-> data] : x \in rcpts}

Event(kind, sid, room, arg) == [kind |-> kind, sid |-> sid, room |-> room, arg |-> arg]

\* a peer list that does not leave the joiner out
ExistingPeers_WithSelf(rs, room, sid) == rs[room]

ExistingPeers(rs, room, sid) == {x \in rs[room] : x # sid}

NewPeerRecipients(sio, conn, room, sid) == Recipients(sio, conn, room, sid, {sid})

\* @socketio.on('join')
on_join(sid, room) ==
    /\ sid \in connected
    /\ LET sio1 == join_room(sio_rooms, room, sid)
           rs1 == [TouchRooms(rooms, room) EXCEPT ![room] = @ \cup {sid}]
           rd0 == TouchRoomData(room_data, room, now)
           rd1 == [rd0 EXCEPT ![room].participants = Put(@, sid, NewParticipant(sid, now))]
       IN /\ sio_rooms' = sio1
          /\ rooms' = rs1
          /\ room_data' = rd1
          /\ out' = Emit("existing-peers", [peers |-> ExistingPeers(rs1, room, sid)],
                         Recipients(sio1, connected, None, sid, {}))
                    \cup Emit("new-peer", [peer |-> sid],
                              NewPeerRecipients(sio1, connected, room, sid))
    /\ last' = Event("join", sid, room, IF room \in DOMAIN rooms THEN rooms[room] ELSE {})
    /\ UNCHANGED <<connected, closed, audioVars, handlers, now>>

\* a removal that leaves the participant record behind
RemoveFromRoom_KeepsParticipant(rs, rd, room, sid, t) ==
    LET rs1 == [rs EXCEPT ![room] = @ \ {sid}]
        rd0 == TouchRoomData(rd, room, t)
    IN IF rs1[room] = {}
       THEN [rooms |-> Del(rs1, room), room_data |-> Del(rd0, room), deleted |-> {room}]
       ELSE [rooms |-> rs1, room_data |-> rd0, deleted |-> {}]

\* the registry after the body of `if request.sid in rooms[room]` (leave, disconnect)
RemoveFromRoom(rs, rd, room, sid, t) ==
    LET rs1 == [rs EXCEPT ![room] = @ \ {sid}]
        rd0 == TouchRoomData(rd, room, t)
        rd1 == IF sid \in DOMAIN rd0[room].participants
               THEN [rd0 EXCEPT ![room].participants = Del(@, sid)] ELSE rd0
    IN IF rs1[room] = {}
       THEN [rooms |-> Del(rs1, room), room_data |-> Del(rd1, room), deleted |-> {room}]
       ELSE [rooms |-> rs1, room_data |-> rd1, deleted |-> {}]

\* @socketio.on('leave')
on_leave(sid, room) ==
    /\ sid \in connected
    /\ LET sio1 == leave_room(sio_rooms, room, sid)
           rs0 == TouchRooms(rooms, room)
           res == RemoveFromRoom(rs0, room_data, room, sid, now)
       IN /\ sio_rooms' = sio1
          /\ IF sid \in rs0[room]
             THEN /\ rooms' = res.rooms
                  /\ room_data' = res.room_data
                  /\ closed' = closed \cup res.deleted
                  /\ out' = Emit("peer-left", [sid |-> sid],
                                 Recipients(sio1, connected, room, sid, {}))
             ELSE /\ rooms' = rs0
                  /\ out' = {}
                  /\ UNCHANGED <<room_data, closed>>
    /\ last' = Event("leave", sid, room, 0)
    /\ UNCHANGED <<connected, audioVars, handlers, now>>

\* a disconnect that cleans nothing up
DisconnectLoop_NoCleanup(keys, rs, rd, sid, t) ==
    [rooms |-> rs, room_data |-> rd, deleted |-> {}, left |-> {}]

\* the for loop of on_disconnect over list(rooms.keys()), one room after the other
RECURSIVE DisconnectLoop(_, _, _, _, _)
DisconnectLoop(keys, rs, rd, sid, t) ==
    IF keys = {} THEN [rooms |-> rs, room_data |-> rd, deleted |-> {}, left |-> {}]
    ELSE LET room == CHOOSE k \in keys : TRUE
             res == RemoveFromRoom(rs, rd, room, sid, t)
             rest == IF sid \in rs[room]
                     THEN DisconnectLoop(keys \ {room}, res.rooms, res.room_data, sid, t)
                     ELSE DisconnectLoop(keys \ {room}, rs, rd, sid, t)
         IN IF sid \in rs[room]
            THEN [rest EXCEPT !.deleted = @ \cup res.deleted, !.left = @ \cup {room}]
            ELSE rest

\* @socketio.on('disconnect'); the transport then drops the connection from
\* every Socket.IO room
on_disconnect(sid) ==
    /\ sid \in connected
    /\ LET res == DisconnectLoop(DOMAIN rooms, rooms, room_data, sid, now)
       IN /\ rooms' = res.rooms
          /\ room_data' = res.room_data
          /\ closed' = closed \cup res.deleted
          /\ out' = UNION {Emit("peer-left", [sid |-> sid],
                                Recipients(sio_rooms, connected \ {sid}, room, sid, {}))
                           : room \in res.left}
    /\ sio_rooms' = [r \in DOMAIN sio_rooms |-> sio_rooms[r] \ {sid}]
    /\ connected' = connected \ {sid}
    /\ last' = Event("disconnect", sid, None, {room \in DOMAIN rooms : sid \in rooms[room]})
    /\ UNCHANGED <<audioVars, handlers, now>>

\* @socketio.on('offer'), ('answer'), ('ice-candidate'): kind names the event, target
\* is data.get('to') (None when the key is missing), payload the sdp or candidate
handle_relay(kind, sid, target, payload) ==
    /\ sid \in connected
    /\ out' = Emit(kind, [payload |-> payload, from |-> sid],
                   Recipients(sio_rooms, connected, target, sid, {}))
    /\ last' = Event(kind, sid, None, [to |-> target, payload |-> payload])
    /\ UNCHANGED <<serverVars, audioVars, now>>

handle_offer(sid, target, sdp) == handle_relay("offer", sid, target, sdp)

handle_answer(sid, target, sdp) == handle_relay("answer", sid, target, sdp)

handle_ice(sid, target, candidate) == handle_relay("ice-candidate", sid, target, candidate)

\* the room record after lines 498-512: activity, speaking time and engagement
SpeakerActivity(rd, sid, text, t) ==
    IF sid \in DOMAIN rd.participants
    THEN LET words_count == Len(str_split(text))
             rd1 == [rd EXCEPT !.participants[sid].last_activity = t,
                               !.participants[sid].speaking_time =
                                   @ + (words_count * SCALE) \div 2]
         IN update_engagement(rd1, sid, "speaking", words_count, t)
    ELSE rd

\* the transcript entry of lines 489-494 with the sentiment line 528 adds to it
TranscriptEntry(rd, sid, text, ts) ==
    [ts |-> ts, text |-> text, sid |-> sid,
     speaker |-> IF sid \in DOMAIN rd.participants
                 THEN rd.participants[sid].name ELSE DefaultName(sid),
     sentiment |-> analyze_sentiment(text)]

\* a transcript that is kept in the order of the timestamps the clients supply
RecordUtterance_ByTimestamp(rd, sid, text, ts, t) ==
    LET entry == TranscriptEntry(rd, sid, text, ts)
        k == Cardinality({i \in 1..Len(rd.transcript) : rd.transcript[i].ts <= ts})
        rd1 == [rd EXCEPT !.transcript =
                   SubSeq(@, 1, k) \o <<entry>> \o SubSeq(@, k + 1, Len(@))]
        rd2 == SpeakerActivity(rd1, sid, text, t)
    IN update_room_sentiment(rd2, text, sid, t)

\* the room record after lines 496-516 for the stripped, non-empty text
RecordUtterance(rd, sid, text, ts, t) ==
    LET rd1 == [rd EXCEPT !.transcript = Append(@, TranscriptEntry(rd, sid, text, ts))]
        rd2 == SpeakerActivity(rd1, sid, text, t)
    IN update_room_sentiment(rd2, text, sid, t)

\* @socketio.on('transcript-text'); ts = 0 stands for a missing timestamp
handle_transcript_text(sid, room, rawtext, tsin) ==
    /\ sid \in connected
    /\ LET text == str_strip(rawtext)
           ts == IF tsin = 0 THEN now ELSE tsin
           rd0 == TouchRoomData(room_data, room, now)
           entry == TranscriptEntry(rd0[room], sid, text, ts)
           rd3 == RecordUtterance(rd0[room], sid, text, ts, now)
           alert == detect_sentiment_alerts(rd3, 0 - 500, 3)
           members == Recipients(sio_rooms, connected, room, sid, {})
           transcript_length == Len(rd3.transcript)
       IN IF text = ""
          THEN /\ out' = {}
               /\ UNCHANGED room_data
          ELSE /\ room_data' = [rd0 EXCEPT ![room] = rd3]
               /\ out' = (IF alert.alert THEN Emit("sentiment-alert", alert, members) ELSE {})
                         \cup Emit("transcript-update", [room |-> room, entry |-> entry],
                                   members)
                         \cup (IF transcript_length > 0 /\ transcript_length % 20 = 0
                               THEN Emit("auto-summary-available",
                                         [room |-> room,
                                          transcript_length |-> transcript_length], members)
                               ELSE {})
    /\ last' = Event("transcript-text", sid, room, [text |-> rawtext, ts |-> tsin])
    /\ UNCHANGED <<rooms, sio_rooms, connected, closed, audioVars, handlers, now>>

\* samples that are never trimmed
AttentionSamples_Untrimmed(rd, sid, score) ==
    Append(IF sid \in DOMAIN rd.attention_scores THEN rd.attention_scores[sid] ELSE <<>>, score)

\* the samples of sid after lines 555-560: append, keep the last 20
AttentionSamples(rd, sid, score) ==
    LET appended == Append(Get(rd.attention_scores, sid, <<>>), score)
    IN IF Len(appended) > 20 THEN LastN(appended, 20) ELSE appended

\* the room record after lines 555-570
RecordAttention(rd, sid, score, t) ==
    LET samples == AttentionSamples(rd, sid, score)
        rd1 == [rd EXCEPT !.attention_scores = Put(@, sid, samples)]
        avg_attention == SumSeq(samples) \div Len(samples)
    IN IF sid \in DOMAIN rd1.participants
       THEN [rd1 EXCEPT !.participants[sid].last_activity = t,
                        !.participants[sid].engagement_score =
                            (@ * 7 + avg_attention * 3) \div 10]
       ELSE rd1

\* @socketio.on('attention'); score is float(data.get('score', 0.0)) in 1/SCALE
handle_attention(sid, room, score) ==
    /\ sid \in connected
    /\ LET rd0 == TouchRoomData(room_data, room, now)
           rd2 == RecordAttention(rd0[room], sid, score, now)
       IN /\ room_data' = [rd0 EXCEPT ![room] = rd2]
          /\ out' = Emit("attention-update", [sid |-> sid, score |-> score],
                         Recipients(sio_rooms, connected, room, sid, {}))
    /\ last' = Event("attention", sid, room, score)
    /\ UNCHANGED <<rooms, sio_rooms, connected, closed, audioVars, handlers, now>>

\* @socketio.on('network-stats'); stats maps the keys the client sent to numbers
handle_network_stats(sid, room, stats) ==
    /\ sid \in connected
    /\ LET rd0 == TouchRoomData(room_data, room, now)
           sample == [timestamp |-> now, rtt |-> Get(stats, "rtt", 0),
                      packet_loss |-> Get(stats, "packet_loss", 0),
                      bandwidth |-> Get(stats, "bandwidth", 1000)]
       IN /\ room_data' = [rd0 EXCEPT ![room].network_stats = Put(@, sid, sample)]
          /\ out' = Emit("network-adaptation",
                         [mode |-> evaluate_network(stats), stats |-> stats],
                         Recipients(sio_rooms, connected, None, sid, {}))
    /\ last' = Event("network-stats", sid, room, stats)
    /\ UNCHANGED <<rooms, sio_rooms, connected, closed, audioVars, handlers, now>>

\* the orders in which a dict with these keys can yield them (a dict yields its keys
\* in insertion order, which the registry does not record)
DictOrders(keys) ==
    {order \in [1..Cardinality(keys) -> keys] :
        \A i \in DOMAIN order, j \in DOMAIN order : order[i] = order[j] => i = j}

\* @app.route('/engagement/<room>'): lines 246-283 repeat get_room_leaderboard and
\* get_speaking_distribution statement by statement; room_data[room] inserts the
\* default record of a room that has none
get_engagement_data(room, order) ==
    /\ order \in DictOrders(DOMAIN TouchRoomData(room_data, room, now)[room].participants)
    /\ LET rd0 == TouchRoomData(room_data, room, now)
           data == rd0[room]
       IN /\ room_data' = rd0
          /\ last' = Event("engagement", None, room,
                           [leaderboard |-> get_room_leaderboard(data, order),
                            speaking_distribution |-> get_speaking_distribution(data),
                            total_participants |-> Len(order)])
    /\ out' = {}
    /\ UNCHANGED <<rooms, sio_rooms, connected, closed, audioVars, handlers, now>>

\* the inactivity of the /nudge route, line 355: current_time - last_activity > 300
NUDGE_SECONDS == 300

\* the condition of line 355 on one participant record
NudgeDue(participant, t) ==
    t - participant.last_activity > NUDGE_SECONDS
    /\ participant.engagement_score < (3 * SCALE) \div 10

\* @app.route('/nudge'): socketio.emit('nudge', ..., room=sid) for every participant
\* that is due; the response lists them
nudge_participants(room) ==
    /\ LET rd0 == TouchRoomData(room_data, room, now)
           room_participants == rd0[room].participants
           nudged == {sid \in DOMAIN room_participants : NudgeDue(room_participants[sid], now)}
       IN /\ room_data' = rd0
          /\ out' = UNION {Emit("nudge", [type |-> "engagement"],
                                Recipients(sio_rooms, connected, sid, None, {}))
                           : sid \in nudged}
          /\ last' = Event("nudge", None, room, nudged)
    /\ UNCHANGED <<rooms, sio_rooms, connected, closed, audioVars, handlers, now>>

\* time.time() moves on by a period in which no event arrives
Idle(period) ==
    /\ now' = now + period
    /\ out' = {}
    /\ last' = Event("idle", None, None, period)
    /\ UNCHANGED <<serverVars, audioVars>>

\* ------------------------------------------------------------ transcription.py
FLUSH_SECONDS == 3

\* the size gate of the flush: len(combined) > 1024
MIN_AUDIO_BYTES == 1024

\* the positional parameters of handle_audio_chunk(room, b64, ts=None, seq=None)
HANDLE_AUDIO_CHUNK_PARAMS == 4

\* An audio input is [valid, byte, n]: base64 text that decodes to n copies of byte
\* when valid, and text base64.b64decode rejects when not; n = 0 is the empty string.
Audio(valid, byte, n) == [valid |-> valid, byte |-> byte, n |-> n]

\* Base64 text with characters outside the alphabet: base64.b64decode(b64) without
\* validate=True discards them and decodes the rest, here to n copies of byte.
StrayAudio(byte, n) == [valid |-> TRUE, byte |-> byte, n |-> n, stray |-> TRUE]

\* base64.b64decode(b64), for an input it accepts
b64decode(b64) == IF b64.n = 0 THEN <<>> ELSE <<[b |-> b64.byte, n |-> b64.n]>>

\* len(bytes)
ByteLen(raw) == SumSeq([i \in 1..Len(raw) |-> raw[i].n])

\* defaultdict(lambda: {"transcript": [], "chunk_queue": queue.Queue()}).__getitem__
TouchTrans(tr, room) ==
    IF room \in DOMAIN tr THEN tr
    ELSE Put(tr, room, [transcript |-> <<>>, chunk_queue |-> <<>>])

\* a pipeline with one queue shared by all the rooms it knows
trans_handle_audio_chunk_SharedQueue(tr, room, b64, ts, seq, t) ==
    IF b64.n = 0 THEN tr
    ELSE IF ~b64.valid THEN tr
    ELSE [r \in DOMAIN TouchTrans(tr, room) |->
             [TouchTrans(tr, room)[r] EXCEPT !.chunk_queue =
                 Append(@, [ts |-> IF ts = 0 THEN t ELSE ts, seq |-> seq,
                            raw |-> b64decode(b64)])]]

\* transcription.rooms after handle_audio_chunk(room, b64, ts, seq); ts = 0 and
\* seq = 0 stand for None as well (ts or time.time(), seq or 0)
trans_handle_audio_chunk(tr, room, b64, ts, seq, t) ==
    IF b64.n = 0 THEN tr
    ELSE IF ~b64.valid THEN tr
    ELSE [TouchTrans(tr, room) EXCEPT ![room].chunk_queue =
              Append(@, [ts |-> IF ts = 0 THEN t ELSE ts, seq |-> seq,
                         raw |-> b64decode(b64)])]

\* key=lambda x: (x[0], x[1])
KeyLE(a, b) == a.ts < b.ts \/ (a.ts = b.ts /\ a.seq <= b.seq)

\* list.sort is stable: x goes behind the last element whose key is not greater
InsertSorted(sorted, x) ==
    LET k == Cardinality({i \in 1..Len(sorted) : KeyLE(sorted[i], x)})
    IN SubSeq(sorted, 1, k) \o <<x>> \o SubSeq(sorted, k + 1, Len(sorted))

RECURSIVE SortFrom(_, _, _)
SortFrom(buffer, i, sorted) ==
    IF i > Len(buffer) THEN sorted
    ELSE SortFrom(buffer, i + 1, InsertSorted(sorted, buffer[i]))

\* a flush that keeps the chunks in arrival order
SortBuffer_ArrivalOrder(buffer) == buffer

\* buffer.sort(key=lambda x: (x[0], x[1]))
SortBuffer(buffer) == SortFrom(buffer, 1, <<>>)

\* b''.join([b for (_, _, b) in buffer])
RECURSIVE JoinBytes(_)
JoinBytes(buffer) ==
    IF buffer = <<>> THEN <<>> ELSE Head(buffer).raw \o JoinBytes(Tail(buffer))

\* the condition under which the flush calls the backend
PassesSizeGate(combined) == ByteLen(combined) > MIN_AUDIO_BYTES

\* transcribe_audio_data: a backend that raises yields None
transcribe_audio_data(outcome) == IF outcome.raises THEN None ELSE outcome.text

\* what the transcription backend may do with one payload
BackendOutcomes ==
    {[raises |-> TRUE, text |-> None], [raises |-> FALSE, text |-> None],
     [raises |-> FALSE, text |-> "  "], [raises |-> FALSE, text |-> " terrible plan "],
     [raises |-> FALSE, text |-> "Brief audio detected."]}

\* a result test that lets a whitespace-only text through
HasText_NotNone(text) == text # None

\* text and text.strip()
HasText(text) == text # None /\ str_strip(text) # ""

\* One pass of the worker loop after q.get returned or timed out: buffer is the
\* buffer including the item just taken.  Gives the worker's new buffer and
\* last_flush, the room's transcript and the messages sent.
WorkerPass(w, buffer, outcome) ==
    LET room == workers[w].room
        flushing == buffer # <<>> /\ now - workers[w].last_flush >= FLUSH_SECONDS
        sorted == SortBuffer(buffer)
        combined == JoinBytes(sorted)
        called == flushing /\ PassesSizeGate(combined)
        text == IF called THEN transcribe_audio_data(outcome) ELSE None
        entry == [ts |-> now, text |-> str_strip(text), backend |-> "whisper"]
        tr0 == TouchTrans(trans_rooms, room)
    IN [flushing |-> flushing, called |-> called, combined |-> combined, text |-> text,
        buffer |-> IF flushing THEN <<>> ELSE buffer,
        last_flush |-> IF flushing THEN now ELSE workers[w].last_flush,
        trans |-> IF called /\ HasText(text)
                  THEN [tr0 EXCEPT ![room].transcript = Append(@, entry)] ELSE trans_rooms,
        out |-> IF called /\ HasText(text)
                THEN Emit("transcript-update", [room |-> room, entry |-> entry],
                          Recipients(sio_rooms, connected, room, None, {}))
                ELSE {}]

\* the event of one pass of thread w (a thread has no connection id)
WorkerEvent(w, pass, buffer) ==
    Event(IF pass.flushing THEN "flush" ELSE "worker-pass", None, workers[w].room,
          [worker |-> w, buffer |-> buffer, payload |-> pass.combined,
           called |-> pass.called, text |-> pass.text])

\* audio_worker_for_room: q.get(timeout=FLUSH_SECONDS) returns the oldest chunk
worker_get_item(w, outcome) ==
    /\ w \in DOMAIN workers
    /\ trans_rooms[workers[w].room].chunk_queue # <<>>
    /\ LET room == workers[w].room
           q == trans_rooms[room].chunk_queue
           buffer == Append(workers[w].buffer, Head(q))
           pass == WorkerPass(w, buffer, outcome)
       IN /\ trans_rooms' = [pass.trans EXCEPT ![room].chunk_queue = Tail(q)]
          /\ workers' = [workers EXCEPT ![w].buffer = pass.buffer,
                                        ![w].last_flush = pass.last_flush,
                                        ![w].wait_start = now]
          /\ out' = pass.out
          /\ last' = WorkerEvent(w, pass, buffer)
    /\ UNCHANGED <<serverVars, audio_workers, starters, now>>

\* a queue wait that times out without the flush check
worker_get_timeout_NoFlush(w, outcome) ==
    /\ w \in DOMAIN workers
    /\ trans_rooms[workers[w].room].chunk_queue = <<>>
    /\ now - workers[w].wait_start >= FLUSH_SECONDS
    /\ workers' = [workers EXCEPT ![w].wait_start = now]
    /\ out' = {}
    /\ last' = Event("worker-pass", None, workers[w].room,
                     [worker |-> w, buffer |-> workers[w].buffer, payload |-> <<>>,
                      called |-> FALSE, text |-> None])
    /\ UNCHANGED <<serverVars, trans_rooms, audio_workers, starters, now>>

\* audio_worker_for_room: q.get raises queue.Empty after FLUSH_SECONDS without a chunk
worker_get_timeout(w, outcome) ==
    /\ w \in DOMAIN workers
    /\ trans_rooms[workers[w].room].chunk_queue = <<>>
    /\ now - workers[w].wait_start >= FLUSH_SECONDS
    /\ LET pass == WorkerPass(w, workers[w].buffer, outcome)
       IN /\ trans_rooms' = pass.trans
          /\ workers' = [workers EXCEPT ![w].buffer = pass.buffer,
                                        ![w].last_flush = pass.last_flush,
                                        ![w].wait_start = now]
          /\ out' = pass.out
          /\ last' = WorkerEvent(w, pass, workers[w].buffer)
    /\ UNCHANGED <<serverVars, audio_workers, starters, now>>

\* threading.Thread(target=audio_worker_for_room).start(): the new thread binds the
\* room's queue and sets buffer, last_flush = [], time.time()
StartThread(wk, room, t) ==
    LET w == CHOOSE i \in 1..(Cardinality(DOMAIN wk) + 1) : i \notin DOMAIN wk
    IN [id |-> w,
        workers |-> Put(wk, w, [room |-> room, buffer |-> <<>>, last_flush |-> t,
                                wait_start |-> t])]

\* start_transcription_worker, line 196: if room not in audio_workers
stw_check(h, room) ==
    /\ starters[h].pc = "idle"
    /\ starters' = IF room \notin DOMAIN audio_workers
                   THEN [starters EXCEPT ![h] = [pc |-> "start", room |-> room, thread |-> 0]]
                   ELSE starters
    /\ out' = {}
    /\ last' = Event("start-worker", h, room, room \notin DOMAIN audio_workers)
    /\ UNCHANGED <<serverVars, trans_rooms, audio_workers, workers, now>>

\* start_transcription_worker, lines 197-202: worker_thread.start()
stw_start(h) ==
    /\ starters[h].pc = "start"
    /\ LET st == StartThread(workers, starters[h].room, now)
       IN /\ workers' = st.workers
          /\ trans_rooms' = TouchTrans(trans_rooms, starters[h].room)
          /\ starters' = [starters EXCEPT ![h].pc = "register", ![h].thread = st.id]
    /\ UNCHANGED <<serverVars, audio_workers, now, out, last>>

\* start_transcription_worker, line 203: audio_workers[room] = worker_thread
stw_register(h) ==
    /\ starters[h].pc = "register"
    /\ audio_workers' = Put(audio_workers, starters[h].room, starters[h].thread)
    /\ starters' = [starters EXCEPT ![h] = [pc |-> "idle", room |-> None, thread |-> 0]]
    /\ UNCHANGED <<serverVars, trans_rooms, workers, now, out, last>>

\* a stop that also ends the room's threads
stop_transcription_worker_Kills(room) ==
    /\ audio_workers' = Del(audio_workers, room)
    /\ workers' = [w \in {x \in DOMAIN workers : workers[x].room # room} |-> workers[w]]
    /\ out' = {}
    /\ last' = Event("stop-worker", None, room, room \in DOMAIN audio_workers)
    /\ UNCHANGED <<serverVars, trans_rooms, starters, now>>

\* stop_transcription_worker: if room in audio_workers: del audio_workers[room]; the
\* thread gets no signal
stop_transcription_worker(room) ==
    /\ audio_workers' = IF room \in DOMAIN audio_workers THEN Del(audio_workers, room)
                        ELSE audio_workers
    /\ out' = {}
    /\ last' = Event("stop-worker", None, room, room \in DOMAIN audio_workers)
    /\ UNCHANGED <<serverVars, trans_rooms, workers, starters, now>>

\* a caller of the pipeline's handle_audio_chunk(room, b64, ts, seq)
submit_audio_chunk(room, b64, ts, seq) ==
    /\ trans_rooms' = trans_handle_audio_chunk(trans_rooms, room, b64, ts, seq, now)
    /\ out' = {}
    /\ last' = Event("submit-chunk", None, room, [audio |-> b64, ts |-> ts, seq |-> seq])
    /\ UNCHANGED <<serverVars, audio_workers, workers, starters, now>>

\* time.time() advances
Tick ==
    /\ now < MaxTime
    /\ now' = now + 1
    /\ UNCHANGED <<serverVars, audioVars, out, last>>

\* the number of arguments server.py passes at line 471:
\* handle_audio_chunk(room, audio_data, ts, seq, from_sid)
SERVER_CALL_ARGS == 5

\* a call with more positional arguments than parameters raises TypeError
RaisesTypeError(nargs, nparams) == nargs > nparams

\* @socketio.on('audio-chunk') of server.py.  The handler runs the pipeline's
\* handle_audio_chunk and start_transcription_worker inside try/except Exception.
handle_audio_chunk(sid, room, audio_data, ts, seq) ==
    /\ sid \in connected
    /\ IF audio_data.n = 0
       THEN UNCHANGED audioVars
       ELSE IF RaisesTypeError(SERVER_CALL_ARGS, HANDLE_AUDIO_CHUNK_PARAMS)
       THEN UNCHANGED audioVars
       ELSE LET st == StartThread(workers, room, now)
                tr1 == trans_handle_audio_chunk(trans_rooms, room, audio_data,
                                                IF ts = 0 THEN now ELSE ts, seq, now)
            IN /\ IF room \notin DOMAIN audio_workers
                  THEN /\ workers' = st.workers
                       /\ audio_workers' = Put(audio_workers, room, st.id)
                       /\ trans_rooms' = TouchTrans(tr1, room)
                  ELSE /\ trans_rooms' = tr1
                       /\ UNCHANGED <<workers, audio_workers>>
               /\ UNCHANGED starters
    /\ out' = {}
    /\ last' = Event("audio-chunk", sid, room, [audio |-> audio_data, ts |-> ts, seq |-> seq])
    /\ UNCHANGED <<serverVars, now>>

\* ------------------------------------------- handlers running concurrently
\* get_async_mode returns 'threading' when neither gevent nor eventlet is installed:
\* every event handler then runs in a thread of its own and the handlers interleave
\* between statements.  handlers[sid] is the handler running for connection sid: op
\* is its event, pc the statement it executes next, room the room it works on, todo
\* the rooms the disconnect loop has still to visit and joined the rooms sid joined
\* to completion and has not left or disconnected from since.
IdleHandler(joined) ==
    [op |-> "idle", pc |-> "idle", room |-> None, todo |-> <<>>, joined |-> joined]

\* connection sid runs a handler that is about to execute the statement pc
AtStatement(sid, ops, pc) == handlers[sid].op \in ops /\ handlers[sid].pc = pc

\* the handler after the body of one room: the disconnect loop goes on to the next
\* key of its snapshot, every other handler returns
EndRoom(h) ==
    IF h.op = "disconnect" /\ h.todo # <<>>
    THEN [h EXCEPT !.room = Head(h.todo), !.todo = Tail(h.todo), !.pc = "test"]
    ELSE IdleHandler(h.joined)

\* the Socket.IO membership once the handler of sid is h: the transport drops the
\* connection from every Socket.IO room after the disconnect handler has returned
SioAfter(sid, h) ==
    IF handlers[sid].op = "disconnect" /\ h.op = "idle"
    THEN [r \in DOMAIN sio_rooms |-> sio_rooms[r] \ {sid}] ELSE sio_rooms

\* one statement of the handler of sid: registry, Socket.IO membership, handler,
\* messages sent and deleted rooms after it
Statement(sid, rs, rd, h, msgs, deleted) ==
    /\ rooms' = rs
    /\ room_data' = rd
    /\ sio_rooms' = SioAfter(sid, h)
    /\ handlers' = [handlers EXCEPT ![sid] = h]
    /\ out' = msgs
    /\ closed' = closed \cup deleted
    /\ last' = Event("statement", sid, handlers[sid].room,
                     [op |-> handlers[sid].op, pc |-> handlers[sid].pc, next |-> h.pc])
    /\ UNCHANGED <<connected, audioVars, now>>

\* on_join: room = data.get('room', 'default'); join_room(room)
join_enter(sid, room) ==
    /\ sid \in connected
    /\ handlers[sid].op = "idle"
    /\ sio_rooms' = join_room(sio_rooms, room, sid)
    /\ handlers' = [handlers EXCEPT ![sid] = [@ EXCEPT !.op = "join", !.pc = "add",
                                                       !.room = room]]
    /\ out' = {}
    /\ last' = Event("statement", sid, room, [op |-> "join", pc |-> "enter", next |-> "add"])
    /\ UNCHANGED <<rooms, room_data, connected, closed, audioVars, now>>

\* on_join: rooms[room].add(request.sid)
join_add(sid) ==
    /\ AtStatement(sid, {"join"}, "add")
    /\ LET h == handlers[sid]
       IN Statement(sid, [TouchRooms(rooms, h.room) EXCEPT ![h.room] = @ \cup {sid}],
                    room_data, [h EXCEPT !.pc = "participant"], {}, {})

\* on_join: room_data[room]["participants"][request.sid] = {...}
join_participant(sid) ==
    /\ AtStatement(sid, {"join"}, "participant")
    /\ LET h == handlers[sid]
           rd0 == TouchRoomData(room_data, h.room, now)
       IN Statement(sid, rooms,
                    [rd0 EXCEPT ![h.room].participants = Put(@, sid, NewParticipant(sid, now))],
                    [h EXCEPT !.pc = "emit"], {}, {})

\* on_join: existing_peers = [...]; emit('existing-peers'); emit('new-peer'); return
join_emit(sid) ==
    /\ AtStatement(sid, {"join"}, "emit")
    /\ LET h == handlers[sid]
           rs0 == TouchRooms(rooms, h.room)
       IN Statement(sid, rs0, room_data, IdleHandler(h.joined \cup {h.room}),
                    Emit("existing-peers", [peers |-> ExistingPeers(rs0, h.room, sid)],
                         Recipients(sio_rooms, connected, None, sid, {}))
                    \cup Emit("new-peer", [peer |-> sid],
                              NewPeerRecipients(sio_rooms, connected, h.room, sid)),
                    {})

\* on_leave: room = data.get('room', 'default'); leave_room(room)
leave_enter(sid, room) ==
    /\ sid \in connected
    /\ handlers[sid].op = "idle"
    /\ sio_rooms' = leave_room(sio_rooms, room, sid)
    /\ handlers' = [handlers EXCEPT ![sid] = [@ EXCEPT !.op = "leave", !.pc = "test",
                                                       !.room = room,
                                                       !.joined = @ \ {room}]]
    /\ out' = {}
    /\ last' = Event("statement", sid, room, [op |-> "leave", pc |-> "enter", next |-> "test"])
    /\ UNCHANGED <<rooms, room_data, connected, closed, audioVars, now>>

\* on_disconnect: for room in list(rooms.keys()); the socket of sid is closed
disconnect_enter(sid, order) ==
    /\ sid \in connected
    /\ handlers[sid].op = "idle"
    /\ order \in DictOrders(DOMAIN rooms)
    /\ connected' = connected \ {sid}
    /\ LET h == EndRoom([op |-> "disconnect", pc |-> "enter", room |-> None,
                         todo |-> order, joined |-> {}])
       IN /\ handlers' = [handlers EXCEPT ![sid] = h]
          /\ sio_rooms' = IF h.op = "idle"
                          THEN [r \in DOMAIN sio_rooms |-> sio_rooms[r] \ {sid}]
                          ELSE sio_rooms
          /\ last' = Event("statement", sid, None,
                           [op |-> "disconnect", pc |-> "enter", next |-> h.pc])
    /\ out' = {}
    /\ UNCHANGED <<rooms, room_data, closed, audioVars, now>>

\* on_leave, on_disconnect: if request.sid in rooms[room]
remove_test(sid) ==
    /\ AtStatement(sid, {"leave", "disconnect"}, "test")
    /\ LET h == handlers[sid]
           rs0 == TouchRooms(rooms, h.room)
       IN Statement(sid, rs0, room_data,
                    IF sid \in rs0[h.room] THEN [h EXCEPT !.pc = "discard"] ELSE EndRoom(h),
                    {}, {})

\* rooms[room].discard(request.sid)
remove_discard(sid) ==
    /\ AtStatement(sid, {"leave", "disconnect"}, "discard")
    /\ LET h == handlers[sid]
       IN Statement(sid, [TouchRooms(rooms, h.room) EXCEPT ![h.room] = @ \ {sid}],
                    room_data, [h EXCEPT !.pc = "participant"], {}, {})

\* if request.sid in room_data[room]["participants"]: del ...[request.sid]
remove_participant(sid) ==
    /\ AtStatement(sid, {"leave", "disconnect"}, "participant")
    /\ LET h == handlers[sid]
           rd0 == TouchRoomData(room_data, h.room, now)
       IN Statement(sid, rooms,
                    IF sid \in DOMAIN rd0[h.room].participants
                    THEN [rd0 EXCEPT ![h.room].participants = Del(@, sid)] ELSE rd0,
                    [h EXCEPT !.pc = "emit"], {}, {})

\* emit('peer-left', {"sid": request.sid}, room=room)
remove_emit(sid) ==
    /\ AtStatement(sid, {"leave", "disconnect"}, "emit")
    /\ LET h == handlers[sid]
       IN Statement(sid, rooms, room_data, [h EXCEPT !.pc = "empty"],
                    Emit("peer-left", [sid |-> sid],
                         Recipients(sio_rooms, connected, h.room, sid, {})), {})

\* if not rooms[room]
remove_empty(sid) ==
    /\ AtStatement(sid, {"leave", "disconnect"}, "empty")
    /\ LET h == handlers[sid]
           rs0 == TouchRooms(rooms, h.room)
       IN Statement(sid, rs0, room_data,
                    IF rs0[h.room] = {} THEN [h EXCEPT !.pc = "del"] ELSE EndRoom(h),
                    {}, {})

\* del rooms[room]; a key that is gone raises KeyError, which ends the handler
remove_del_rooms(sid) ==
    /\ AtStatement(sid, {"leave", "disconnect"}, "del")
    /\ LET h == handlers[sid]
       IN IF h.room \in DOMAIN rooms
          THEN Statement(sid, Del(rooms, h.room), room_data, [h EXCEPT !.pc = "del_data"],
                         {}, {h.room})
          ELSE Statement(sid, rooms, room_data, IdleHandler(h.joined), {}, {})

\* del room_data[room]; a key that is gone raises KeyError, which ends the handler
remove_del_data(sid) ==
    /\ AtStatement(sid, {"leave", "disconnect"}, "del_data")
    /\ LET h == handlers[sid]
       IN IF h.room \in DOMAIN room_data
          THEN Statement(sid, rooms, Del(room_data, h.room), EndRoom(h), {}, {})
          ELSE Statement(sid, rooms, room_data, IdleHandler(h.joined), {}, {})

\* ------------------------------------------------------------ specifications
Callers == {"h1", "h2"}

Texts == {"  ", " very good idea "}

TsInputs == {0, 7}

AttentionInputs == {0, 1000, 2000}

NetworkInputs ==
    {EmptyFn, [rtt |-> 50, packet_loss |-> 250, bandwidth |-> 1000],
     [rtt |-> 50, packetLoss |-> 250, bandwidth |-> 1000]}

AudioInputs == {Audio(TRUE, "a", 0), Audio(TRUE, "a", 512), Audio(FALSE, "?", 3)}

\* data.get('to'): a connection id, a room key (a Socket.IO room like any other)
\* or nothing
Targets == Conns \cup RoomKeys \cup {None}

Init ==
    /\ rooms = EmptyFn
    /\ room_data = EmptyFn
    /\ sio_rooms = [r \in RoomKeys |-> {}]
    /\ connected = Conns
    /\ trans_rooms = EmptyFn
    /\ audio_workers = EmptyFn
    /\ workers = EmptyFn
    /\ starters = [h \in Callers |-> [pc |-> "idle", room |-> None, thread |-> 0]]
    /\ handlers = [c \in Conns |-> IdleHandler({})]
    /\ now = 0
    /\ out = {}
    /\ last = Event("init", None, None, 0)
    /\ closed = {}

\* the transcript entries, attention samples and network samples a room holds
RoomActivity(rd) ==
    Len(rd.transcript) + Cardinality(DOMAIN rd.network_stats)
    + SumOver([sid \in DOMAIN rd.attention_scores |-> Len(rd.attention_scores[sid])],
              DOMAIN rd.attention_scores)

Activity == SumOver([room \in DOMAIN room_data |-> RoomActivity(room_data[room])],
                    DOMAIN room_data)

\* The session registry and the signaling relay: the membership handlers of
\* server.py, one event at a time.
Next ==
    \/ \E sid \in Conns, room \in RoomKeys : on_join(sid, room)
    \/ \E sid \in Conns, room \in RoomKeys : on_leave(sid, room)
    \/ \E sid \in Conns : on_disconnect(sid)
    \/ \E sid \in Conns, target \in Targets : handle_offer(sid, target, "sdp")
    \/ \E sid \in Conns, target \in Targets : handle_answer(sid, target, "sdp")
    \/ \E sid \in Conns, target \in Targets : handle_ice(sid, target, "candidate")

Spec == Init /\ [][Next]_vars

\* The activity events of one room: two connections that join and leave, speak,
\* report attention and network statistics and send audio chunks.
ActivityConns == {"c1", "c2"}

ActivityRooms == {"r1"}

NextActivity ==
    \/ \E sid \in ActivityConns, room \in ActivityRooms : on_join(sid, room)
    \/ \E sid \in ActivityConns, room \in ActivityRooms : on_leave(sid, room)
    \/ \E sid \in ActivityConns, room \in ActivityRooms, text \in Texts, ts \in TsInputs :
          /\ Activity < MaxActivity
          /\ handle_transcript_text(sid, room, text, ts)
    \/ \E sid \in ActivityConns, room \in ActivityRooms, score \in AttentionInputs :
          /\ Activity < MaxActivity
          /\ handle_attention(sid, room, score)
    \/ \E sid \in ActivityConns, room \in ActivityRooms, stats \in NetworkInputs :
          /\ Activity < MaxActivity
          /\ handle_network_stats(sid, room, stats)
    \/ \E sid \in ActivityConns, room \in ActivityRooms, audio \in AudioInputs :
          handle_audio_chunk(sid, room, audio, 0, 1)

SpecActivity == Init /\ [][NextActivity]_vars

\* The transcription pipeline of one room: callers of the pipeline's
\* handle_audio_chunk and start_transcription_worker, the worker thread and the clock.
AudioRooms == {"r1"}

AudioConns == {"c1"}

AudioCallers == {"h1"}

\* the submissions <<base64 audio, ts, seq>> the callers make
ChunkInputs ==
    {<<Audio(TRUE, "a", 512), 2, 1>>, <<Audio(TRUE, "b", 1025), 1, 2>>,
     <<Audio(TRUE, "c", 512), 1, 1>>, <<Audio(TRUE, "a", 0), 1, 1>>,
     <<Audio(FALSE, "?", 3), 1, 1>>}

\* the chunks a room's queue and its workers' buffers hold
PendingChunks(room) ==
    (IF room \in DOMAIN trans_rooms THEN Len(trans_rooms[room].chunk_queue) ELSE 0)
    + SumOver([w \in DOMAIN workers |->
                  IF workers[w].room = room THEN Len(workers[w].buffer) ELSE 0],
              DOMAIN workers)

NextAudio ==
    \/ \E room \in AudioRooms, c \in ChunkInputs :
          /\ PendingChunks(room) < MaxChunks
          /\ submit_audio_chunk(room, c[1], c[2], c[3])
    \/ \E h \in AudioCallers, room \in AudioRooms : stw_check(h, room)
    \/ \E h \in AudioCallers :
          /\ Cardinality(DOMAIN workers) < MaxWorkers
          /\ stw_start(h)
    \/ \E h \in AudioCallers : stw_register(h)
    \/ \E w \in DOMAIN workers, outcome \in BackendOutcomes : worker_get_item(w, outcome)
    \/ \E w \in DOMAIN workers, outcome \in BackendOutcomes : worker_get_timeout(w, outcome)
    \/ Tick

SpecAudio == Init /\ [][NextAudio]_vars

\* The pipeline of a room whose participant joins and leaves while the worker runs.
RoomChunkInputs == {<<Audio(TRUE, "a", 2048), 1, 1>>}

NextRoomAudio ==
    \/ \E room \in AudioRooms, c \in RoomChunkInputs :
          /\ PendingChunks(room) < MaxChunks
          /\ submit_audio_chunk(room, c[1], c[2], c[3])
    \/ \E h \in AudioCallers, room \in AudioRooms : stw_check(h, room)
    \/ \E h \in AudioCallers :
          /\ Cardinality(DOMAIN workers) < MaxWorkers
          /\ stw_start(h)
    \/ \E h \in AudioCallers : stw_register(h)
    \/ \E w \in DOMAIN workers, outcome \in BackendOutcomes : worker_get_item(w, outcome)
    \/ \E w \in DOMAIN workers, outcome \in BackendOutcomes : worker_get_timeout(w, outcome)
    \/ \E sid \in AudioConns, room \in AudioRooms : on_join(sid, room)
    \/ \E sid \in AudioConns, room \in AudioRooms : on_leave(sid, room)
    \/ Tick

SpecRoomAudio == Init /\ [][NextRoomAudio]_vars

\* Concurrent callers of start_transcription_worker: each runs the check, the
\* thread start and the registration as separate steps.
NextStart ==
    \/ \E h \in Callers, room \in RoomKeys : stw_check(h, room)
    \/ \E h \in Callers :
          /\ Cardinality(DOMAIN workers) < MaxWorkers
          /\ stw_start(h)
    \/ \E h \in Callers : stw_register(h)

SpecStart == Init /\ [][NextStart]_vars

\* ------------------------------------------------------------------- claims

\* The sentiment scorer on its own: a text is drawn, analyze_sentiment scores it.
ModifierTokens == DOMAIN INTENSIFIERS \cup NEGATIONS

\* a modifier in front of a positive word, and every lexicon word alone
PairInputs == {<<k, w>> : k \in ModifierTokens, w \in POSITIVE_WORDS}

SingleInputs == {<<w>> : w \in POSITIVE_WORDS \cup NEGATIVE_WORDS}

MixedTokens == {"Good!", "terrible", "EXTREMELY", "not", "idea,", "\t"}

TripleInputs == {<<a, b, c>> : a \in MixedTokens, b \in MixedTokens, c \in MixedTokens}

SentimentInputs == PairInputs \cup SingleInputs \cup TripleInputs \cup {<<>>, <<" ">>}

RECURSIVE JoinWords(_)
JoinWords(toks) ==
    IF toks = <<>> THEN ""
    ELSE IF Len(toks) = 1 THEN toks[1]
    ELSE toks[1] \o " " \o JoinWords(Tail(toks))

InitSentiment ==
    /\ rooms = EmptyFn
    /\ room_data = EmptyFn
    /\ sio_rooms = [r \in RoomKeys |-> {}]
    /\ connected = Conns
    /\ trans_rooms = EmptyFn
    /\ audio_workers = EmptyFn
    /\ workers = EmptyFn
    /\ starters = [h \in Callers |-> [pc |-> "idle", room |-> None, thread |-> 0]]
    /\ handlers = [c \in Conns |-> IdleHandler({})]
    /\ now = 0
    /\ out = {}
    /\ last \in {Event("text", None, None, [words |-> toks, text |-> JoinWords(toks)])
                 : toks \in SentimentInputs}
    /\ closed = {}

\* a call analyze_sentiment(text) on the drawn text
call_analyze_sentiment ==
    /\ last.kind = "text"
    /\ last' = Event("sentiment", None, None,
                     [words |-> last.arg.words, text |-> last.arg.text,
                      score |-> analyze_sentiment(last.arg.text)])
    /\ UNCHANGED <<serverVars, audioVars, now, out>>

NextSentiment == call_analyze_sentiment

SpecSentiment == InitSentiment /\ [][NextSentiment]_vars

\* The bounded histories: a room whose one participant has already spoken and
\* reported attention some number of times, and goes on doing so.
HistoryConn == "c1"

HistoryRoom == "r1"

PrefillCounts == {2, 99, 100}

PrefillTexts == {"terrible", "bad bad bad bad good"}

PrefillSamples == {19, 20}

RECURSIVE RepeatText(_, _)
RepeatText(text, k) == IF k = 0 THEN "" ELSE text \o RepeatText(text, k - 1)

LongText == RepeatText("terrible ", 12) \o "end"

HistoryTexts == {LongText, "bad bad bad bad good", "good"}

HistoryScores == {0, 1000}

\* room_data[room] after sid joined at time 0
JoinedRoom(sid) == [NewRoomData(0) EXCEPT !.participants = Put(@, sid, NewParticipant(sid, 0))]

\* the room rd after the transcript-text events number from + 1 .. to of sid, the
\* i-th at time i: the earlier half of the events is applied, then the later half
RECURSIVE UtterancesFrom(_, _, _, _, _)
UtterancesFrom(rd, sid, text, from, to) ==
    IF to <= from THEN rd
    ELSE IF to = from + 1 THEN RecordUtterance(rd, sid, text, to, to)
    ELSE LET mid == (from + to) \div 2
             earlier == UtterancesFrom(rd, sid, text, from, mid)
         IN IF Len(earlier.transcript) >= 0
            THEN UtterancesFrom(earlier, sid, text, mid, to) ELSE rd

Utterances(rd, sid, text, n) == UtterancesFrom(rd, sid, text, 0, n)

\* the room after m attention events of sid at time t, the i-th with score i/SCALE
RECURSIVE AttentionsFrom(_, _, _, _, _)
AttentionsFrom(rd, sid, from, to, t) ==
    IF to <= from THEN rd
    ELSE IF to = from + 1 THEN RecordAttention(rd, sid, to, t)
    ELSE LET mid == (from + to) \div 2
             earlier == AttentionsFrom(rd, sid, from, mid, t)
         IN IF Len(earlier.transcript) >= 0
            THEN AttentionsFrom(earlier, sid, mid, to, t) ELSE rd

Attentions(rd, sid, m, t) == AttentionsFrom(rd, sid, 0, m, t)

InitHistory ==
    /\ rooms = Put(EmptyFn, HistoryRoom, {HistoryConn})
    /\ sio_rooms = [r \in RoomKeys |-> IF r = HistoryRoom THEN {HistoryConn} ELSE {}]
    /\ connected = Conns
    /\ \E n \in PrefillCounts, text \in PrefillTexts, m \in PrefillSamples :
          /\ room_data = Put(EmptyFn, HistoryRoom,
                             Attentions(Utterances(JoinedRoom(HistoryConn), HistoryConn,
                                                   text, n),
                                        HistoryConn, m, n))
          /\ now = n + 1
    /\ trans_rooms = EmptyFn
    /\ audio_workers = EmptyFn
    /\ workers = EmptyFn
    /\ starters = [h \in Callers |-> [pc |-> "idle", room |-> None, thread |-> 0]]
    /\ handlers = [c \in Conns |-> IdleHandler({})]
    /\ out = {}
    /\ last = Event("init", None, None, 0)
    /\ closed = {}

\* the utterances recorded and the samples reported since the initial state
HistoryActivity ==
    LET rd == room_data[HistoryRoom]
        samples == Get(rd.attention_scores, HistoryConn, <<>>)
    IN Cardinality({i \in 1..Len(rd.sentiment_history) :
                       rd.sentiment_history[i].timestamp = now})
       + Cardinality({i \in 1..Len(samples) : samples[i] \in HistoryScores})

NextHistory ==
    \/ \E text \in HistoryTexts :
          /\ HistoryActivity < MaxActivity
          /\ handle_transcript_text(HistoryConn, HistoryRoom, text, 0)
    \/ \E score \in HistoryScores :
          /\ HistoryActivity < MaxActivity
          /\ handle_attention(HistoryConn, HistoryRoom, score)

SpecHistory == InitHistory /\ [][NextHistory]_vars

\* The network classifier on its own: a telemetry dict is drawn, the /adapt route
\* classifies it.
RttInputs == {0, 299, 300, 350}

LossInputs == {0, 49, 50, 99, 100, 120, 199, 200, 250}

BandwidthInputs == {0, 99, 100, 199, 200, 399, 400, 1000}

TelemetryKeys == {"rtt", "packetLoss", "bandwidth"}

TelemetryValues(key) ==
    CASE key = "rtt" -> RttInputs [] key = "packetLoss" -> LossInputs
      [] key = "bandwidth" -> BandwidthInputs

\* the dicts a client can send: any of the three keys, each with one of its values
TelemetryInputs ==
    UNION {{st \in [keys -> RttInputs \cup LossInputs \cup BandwidthInputs] :
               \A key \in keys : st[key] \in TelemetryValues(key)}
           : keys \in SUBSET TelemetryKeys}

InitNetwork ==
    /\ rooms = EmptyFn
    /\ room_data = EmptyFn
    /\ sio_rooms = [r \in RoomKeys |-> {}]
    /\ connected = Conns
    /\ trans_rooms = EmptyFn
    /\ audio_workers = EmptyFn
    /\ workers = EmptyFn
    /\ starters = [h \in Callers |-> [pc |-> "idle", room |-> None, thread |-> 0]]
    /\ handlers = [c \in Conns |-> IdleHandler({})]
    /\ now = 0
    /\ out = {}
    /\ last \in {Event("telemetry", None, None, [stats |-> st]) : st \in TelemetryInputs}
    /\ closed = {}

\* @app.route('/adapt'): mode = evaluate_network(stats) on the posted dict
adapt ==
    /\ last.kind = "telemetry"
    /\ last' = Event("adapt", None, None,
                     [stats |-> last.arg.stats, mode |-> evaluate_network(last.arg.stats)])
    /\ UNCHANGED <<serverVars, audioVars, now, out>>

NextNetwork == adapt

SpecNetwork == InitNetwork /\ [][NextNetwork]_vars

\* The engagement queries: a room whose members joined at time 0, c1 first and c3
\* last, speak and report attention, time passes, and the /engagement and /nudge
\* routes are called.
EngageRoom == "r1"

EngageMembers == {{"c1"}, {"c1", "c2"}, {"c1", "c2", "c3"}}

\* the members that speak and report attention; c3 only listens
EngageActive == {"c1", "c2"}

EngageTexts == {"good", " very good idea "}

EngageScores == {0}

\* the order in which the members joined, which is the order the participants dict
\* yields them in
EngageOrder == <<"c1", "c2", "c3">>

JoinOrder(members) == SelectSeq(EngageOrder, LAMBDA sid : sid \in members)

IdlePeriods == {NUDGE_SECONDS, NUDGE_SECONDS + 1}

MaxIdle == 1

\* room_data[room] after the connections of members joined at time 0
JoinedRoomOf(members) ==
    [NewRoomData(0) EXCEPT !.participants = [sid \in members |-> NewParticipant(sid, 0)]]

InitEngage ==
    /\ \E members \in EngageMembers :
          /\ rooms = Put(EmptyFn, EngageRoom, members)
          /\ room_data = Put(EmptyFn, EngageRoom, JoinedRoomOf(members))
          /\ sio_rooms = [r \in RoomKeys |-> IF r = EngageRoom THEN members ELSE {}]
    /\ connected = Conns
    /\ trans_rooms = EmptyFn
    /\ audio_workers = EmptyFn
    /\ workers = EmptyFn
    /\ starters = [h \in Callers |-> [pc |-> "idle", room |-> None, thread |-> 0]]
    /\ handlers = [c \in Conns |-> IdleHandler({})]
    /\ now = 0
    /\ out = {}
    /\ last = Event("init", None, None, 0)
    /\ closed = {}

NextEngage ==
    \/ \E sid \in rooms[EngageRoom] \cap EngageActive, text \in EngageTexts :
          /\ Activity < MaxActivity
          /\ handle_transcript_text(sid, EngageRoom, text, 0)
    \/ \E sid \in rooms[EngageRoom] \cap EngageActive, score \in EngageScores :
          /\ Activity < MaxActivity
          /\ handle_attention(sid, EngageRoom, score)
    \/ \E period \in IdlePeriods :
          /\ now < MaxIdle * NUDGE_SECONDS
          /\ Idle(period)
    \/ get_engagement_data(EngageRoom, JoinOrder(rooms[EngageRoom]))
    \/ nudge_participants(EngageRoom)

SpecEngage == InitEngage /\ [][NextEngage]_vars

\* The transcript of one room: two connections join, leave and disconnect, and
\* speak with and without a timestamp of their own.
TranscriptConns == {"c1", "c2"}

TranscriptRoom == "r1"

NextTranscript ==
    \/ \E sid \in TranscriptConns : on_join(sid, TranscriptRoom)
    \/ \E sid \in TranscriptConns : on_leave(sid, TranscriptRoom)
    \/ \E sid \in TranscriptConns : on_disconnect(sid)
    \/ \E sid \in TranscriptConns, text \in Texts, ts \in TsInputs :
          /\ Activity < MaxActivity
          /\ handle_transcript_text(sid, TranscriptRoom, text, ts)

SpecTranscript == Init /\ [][NextTranscript]_vars

\* The worker loop under fair scheduling: the room's worker thread (or the two
\* threads that concurrent starts leave running) is scheduled again and again and
\* time advances, while callers submit chunks until time MaxTime.
DrainRoom == "r1"

DrainThreads == {1, 2}

\* the submissions <<base64 audio, seq>>; the worker stamps them with the time
DrainChunks == {<<Audio(TRUE, "a", 512), 1>>, <<Audio(TRUE, "b", 1025), 2>>}

DrainOutcomes == {[raises |-> TRUE, text |-> None], [raises |-> FALSE, text |-> " terrible plan "]}

\* the chunk with this sequence number waits in the room's queue
InQueue(seq) ==
    \E i \in 1..Len(trans_rooms[DrainRoom].chunk_queue) :
        trans_rooms[DrainRoom].chunk_queue[i].seq = seq

\* the chunk with this sequence number is in a worker's buffer
InBuffer(seq) ==
    \E w \in DOMAIN workers : \E i \in 1..Len(workers[w].buffer) : workers[w].buffer[i].seq = seq

InitDrain ==
    /\ rooms = EmptyFn
    /\ room_data = EmptyFn
    /\ sio_rooms = [r \in RoomKeys |-> {}]
    /\ connected = Conns
    /\ trans_rooms = TouchTrans(EmptyFn, DrainRoom)
    /\ \E threads \in {{1}, DrainThreads} :
          /\ workers = [w \in threads |-> [room |-> DrainRoom, buffer |-> <<>>,
                                           last_flush |-> 0, wait_start |-> 0]]
          /\ audio_workers = Put(EmptyFn, DrainRoom, Cardinality(threads))
    /\ starters = [h \in Callers |-> [pc |-> "idle", room |-> None, thread |-> 0]]
    /\ handlers = [c \in Conns |-> IdleHandler({})]
    /\ now = 0
    /\ out = {}
    /\ last = Event("init", None, None, 0)
    /\ closed = {}

\* one pass of the loop of thread w: the queue wait returns a chunk or times out
worker_loop(w) ==
    \E outcome \in DrainOutcomes : worker_get_item(w, outcome) \/ worker_get_timeout(w, outcome)

\* time.time() advances: up to MaxTime, and beyond it for as long as a thread that
\* holds chunks is inside a queue wait that has not timed out
TickPending ==
    /\ \/ now < MaxTime
       \/ \E w \in DOMAIN workers :
             workers[w].buffer # <<>> /\ now < workers[w].wait_start + FLUSH_SECONDS
    /\ now' = now + 1
    /\ UNCHANGED <<serverVars, audioVars, out, last>>

NextDrain ==
    \/ \E c \in DrainChunks :
          /\ now < MaxTime
          /\ PendingChunks(DrainRoom) < MaxChunks
          /\ ~InQueue(c[2]) /\ ~InBuffer(c[2])
          /\ submit_audio_chunk(DrainRoom, c[1], 0, c[2])
    \/ \E w \in DrainThreads : worker_loop(w)
    \/ TickPending

\* the queue wait of thread w can return: a chunk is queued or the wait has lasted
\* FLUSH_SECONDS (the enabling condition of worker_loop(w))
worker_runnable(w) ==
    /\ w \in DOMAIN workers
    /\ \/ trans_rooms[workers[w].room].chunk_queue # <<>>
       \/ now - workers[w].wait_start >= FLUSH_SECONDS

\* the step is a pass of the loop of thread w
worker_ran(w) == last'.kind \in {"flush", "worker-pass"} /\ last'.arg.worker = w

\* Weak fairness of time and of every worker thread.  The fairness of thread w is
\* WF_<<workers, trans_rooms>>(worker_loop(w)) written out, with the enabling
\* condition and the step named by worker_runnable and worker_ran.
SpecDrain ==
    /\ InitDrain /\ [][NextDrain]_vars
    /\ WF_now(TickPending)
    /\ \A w \in DrainThreads :
          []<>(~worker_runnable(w)) \/ []<><<worker_ran(w)>>_<<workers, trans_rooms>>

\* The membership handlers of one room run by two connections, each handler one
\* statement at a time and interleaved with the handler of the other connection.
RaceConns == {"c1", "c2"}

RaceRooms == {"r1"}

NextRace ==
    \/ \E sid \in RaceConns, room \in RaceRooms : join_enter(sid, room)
    \/ \E sid \in RaceConns : join_add(sid)
    \/ \E sid \in RaceConns : join_participant(sid)
    \/ \E sid \in RaceConns : join_emit(sid)
    \/ \E sid \in RaceConns, room \in RaceRooms : leave_enter(sid, room)
    \/ \E sid \in RaceConns : \E order \in DictOrders(DOMAIN rooms) : disconnect_enter(sid, order)
    \/ \E sid \in RaceConns : remove_test(sid)
    \/ \E sid \in RaceConns : remove_discard(sid)
    \/ \E sid \in RaceConns : remove_participant(sid)
    \/ \E sid \in RaceConns : remove_emit(sid)
    \/ \E sid \in RaceConns : remove_empty(sid)
    \/ \E sid \in RaceConns : remove_del_rooms(sid)
    \/ \E sid \in RaceConns : remove_del_data(sid)

SpecRace == Init /\ [][NextRace]_vars

\* The life of a room's worker: one caller starts and stops the worker of the room
\* while its participant joins and leaves, one chunk at a time arrives and the threads
\* run, for one flush interval.
StopOutcomes == {[raises |-> FALSE, text |-> " terrible plan "]}

\* the threads that run for a room
ThreadsOf(room) == {w \in DOMAIN workers : workers[w].room = room}

NextStop ==
    \/ \E room \in AudioRooms, c \in RoomChunkInputs :
          /\ PendingChunks(room) = 0
          /\ submit_audio_chunk(room, c[1], c[2], c[3])
    \/ \E h \in AudioCallers, room \in AudioRooms : stw_check(h, room)
    \/ \E h \in AudioCallers :
          /\ Cardinality(DOMAIN workers) < MaxWorkers
          /\ stw_start(h)
    \/ \E h \in AudioCallers : stw_register(h)
    \/ \E h \in AudioCallers, room \in AudioRooms :
          /\ starters[h].pc = "idle"
          /\ stop_transcription_worker(room)
    \/ \E w \in DOMAIN workers, outcome \in StopOutcomes : worker_get_item(w, outcome)
    \/ \E w \in DOMAIN workers, outcome \in StopOutcomes : worker_get_timeout(w, outcome)
    \/ \E sid \in AudioConns, room \in AudioRooms : on_join(sid, room)
    \/ \E sid \in AudioConns, room \in AudioRooms : on_leave(sid, room)
    \/ now < FLUSH_SECONDS /\ Tick

SpecStop == Init /\ [][NextStop]_vars

\* Two rooms side by side: the events of a connection that name either room, and
\* callers that put chunks on either room's queue.
FrameConns == {"c1"}

FrameText == "good"

FrameScore == SCALE \div 2

FrameStats == [rtt |-> 50, packet_loss |-> 250, bandwidth |-> 1000]

FrameAudio == Audio(TRUE, "a", 512)

NextFrame ==
    \/ \E sid \in FrameConns, room \in RoomKeys : on_join(sid, room)
    \/ \E sid \in FrameConns, room \in RoomKeys : on_leave(sid, room)
    \/ \E sid \in FrameConns, room \in RoomKeys :
          /\ Activity < MaxActivity
          /\ handle_transcript_text(sid, room, FrameText, 0)
    \/ \E sid \in FrameConns, room \in RoomKeys :
          /\ Activity < MaxActivity
          /\ handle_attention(sid, room, FrameScore)
    \/ \E sid \in FrameConns, room \in RoomKeys :
          /\ Activity < MaxActivity
          /\ handle_network_stats(sid, room, FrameStats)
    \/ \E sid \in FrameConns, room \in RoomKeys : handle_audio_chunk(sid, room, FrameAudio, 0, 1)
    \/ \E room \in RoomKeys :
          /\ PendingChunks(room) = 0
          /\ submit_audio_chunk(room, FrameAudio, 0, 1)

SpecFrame == Init /\ [][NextFrame]_vars

\* Callers of the pipeline's handle_audio_chunk and the server's audio-chunk event
\* with well-formed, empty and malformed audio for two rooms.
SubmitInputs ==
    {Audio(TRUE, "a", 512), Audio(TRUE, "a", 0), Audio(FALSE, "?", 3), StrayAudio("a", 3)}

SubmitConns == {"c1"}

NextSubmit ==
    \/ \E room \in RoomKeys, b64 \in SubmitInputs, seq \in {1, 2} :
          /\ PendingChunks(room) < MaxChunks
          /\ submit_audio_chunk(room, b64, 0, seq)
    \/ \E sid \in SubmitConns, room \in RoomKeys, b64 \in SubmitInputs :
          handle_audio_chunk(sid, room, b64, 0, 1)

SpecSubmit == Init /\ [][NextSubmit]_vars

\* C1: in every reachable state every participant's engagement score is in [0,1],
\* whatever attention value a client sends.
C1_EngagementInUnitInterval ==
    \A room \in DOMAIN room_data :
        \A sid \in DOMAIN room_data[room].participants :
            /\ room_data[room].participants[sid].engagement_score >= 0
            /\ room_data[room].participants[sid].engagement_score <= SCALE

\* C2: neither the membership registry nor the per-room data store holds an entry
\* for a room with zero participants.
C2_NoEmptyRoom ==
    /\ \A room \in DOMAIN rooms : rooms[room] # {}
    /\ \A room \in DOMAIN room_data : room \in DOMAIN rooms /\ rooms[room] # {}

\* C3: a join on a room key whose last participant left before starts from empty
\* state: no participant but the joiner, empty session and pipeline transcripts,
\* empty sentiment, attention and network histories.
C3_RejoinStartsEmpty ==
    (last.kind = "join" /\ last.room \in closed /\ last.arg = {}) =>
        LET rd == room_data[last.room]
        IN /\ DOMAIN rd.participants = {last.sid}
           /\ rd.transcript = <<>>
           /\ rd.sentiment_history = <<>>
           /\ DOMAIN rd.attention_scores = {}
           /\ DOMAIN rd.network_stats = {}
           /\ (last.room \in DOMAIN trans_rooms =>
                  trans_rooms[last.room].transcript = <<>>)

\* C4: at most one worker is ever running for a room, under any interleaving of
\* the callers of start_transcription_worker.
C4_AtMostOneWorkerPerRoom ==
    \A w1 \in DOMAIN workers, w2 \in DOMAIN workers :
        workers[w1].room = workers[w2].room => w1 = w2

\* C5: an audio-chunk event with non-empty, valid base64 audio puts its chunk on the
\* room's queue and leaves a transcription worker existing for the room.
C5_AudioChunkEnqueued ==
    (last.kind = "audio-chunk" /\ last.arg.audio.n > 0 /\ last.arg.audio.valid) =>
        /\ last.room \in DOMAIN trans_rooms
        /\ trans_rooms[last.room].chunk_queue # <<>>
        /\ LET q == trans_rooms[last.room].chunk_queue
           IN q[Len(q)].raw = b64decode(last.arg.audio) /\ q[Len(q)].seq = last.arg.seq
        /\ last.room \in DOMAIN audio_workers
        /\ \E w \in DOMAIN workers : workers[w].room = last.room

\* the orders in which n buffered chunks can be laid out
Orders(n) == {p \in [1..n -> 1..n] : \A i \in 1..n, j \in 1..n : p[i] = p[j] => i = j}

\* the chunks of buffer in the order p have ascending (timestamp, sequence number)
Ascending(buffer, p) ==
    \A i \in 1..(Len(buffer) - 1) :
        \/ buffer[p[i]].ts < buffer[p[i + 1]].ts
        \/ /\ buffer[p[i]].ts = buffer[p[i + 1]].ts
           /\ buffer[p[i]].seq <= buffer[p[i + 1]].seq

RECURSIVE BytesInOrder(_, _, _)
BytesInOrder(buffer, p, i) ==
    IF i > Len(buffer) THEN <<>> ELSE buffer[p[i]].raw \o BytesInOrder(buffer, p, i + 1)

\* C6: the payload of every flush is the concatenation of the raw bytes of the
\* buffered chunks in ascending (timestamp, sequence number) order, whatever order
\* they were submitted in, and the worker's buffer is empty afterwards.
C6_FlushConcatenatesInOrder ==
    last.kind = "flush" =>
        /\ \E p \in Orders(Len(last.arg.buffer)) :
              /\ Ascending(last.arg.buffer, p)
              /\ last.arg.payload = BytesInOrder(last.arg.buffer, p, 1)
        /\ workers[last.arg.worker].buffer = <<>>

\* C6 witness: a flush of two chunks that were buffered in descending order
C6_Witness ==
    /\ last.kind = "flush"
    /\ Len(last.arg.buffer) = 2
    /\ last.arg.buffer[1].ts > last.arg.buffer[2].ts
    /\ last.arg.buffer[1].raw # last.arg.buffer[2].raw

\* C7: a flush whose payload is shorter than 1024 bytes does not call the backend,
\* and a flush whose payload is 1024 bytes or longer does.
C7_SizeGateAt1024 ==
    last.kind = "flush" =>
        /\ (ByteLen(last.arg.payload) < 1024 => ~last.arg.called)
        /\ (ByteLen(last.arg.payload) >= 1024 => last.arg.called)

\* the backend raised or returned nothing usable
NoTextThisWindow(text) == text = None \/ str_strip(text) = ""

WorkerStep(w) ==
    \E outcome \in BackendOutcomes : worker_get_item(w, outcome) \/ worker_get_timeout(w, outcome)

\* C8: when the backend raises or returns nothing during a flush, no transcript
\* entry is appended, nothing is broadcast, the window's chunks are not kept, and
\* the worker is still running and takes the next chunk that is queued.
C8_FailedFlushDiscardsWindow ==
    [][\A w \in DOMAIN workers :
          (WorkerStep(w) /\ last'.kind = "flush" /\ last'.arg.called
             /\ NoTextThisWindow(last'.arg.text)) =>
              /\ trans_rooms'[workers[w].room].transcript
                   = trans_rooms[workers[w].room].transcript
              /\ out' = {}
              /\ w \in DOMAIN workers'
              /\ workers'[w].buffer = <<>>
              /\ workers'[w].room = workers[w].room]_vars

\* C8 witness: a flush in which the backend raised or returned nothing, after which
\* a chunk is waiting for the worker
C8_Witness ==
    /\ last.kind = "flush"
    /\ last.arg.called
    /\ last.arg.text = None
    /\ trans_rooms[last.room].chunk_queue # <<>>

\* C9: every non-blank transcription result of a flush is appended to the room
\* transcript the transcript-text handler appends to, gets a sentiment score in the
\* room's sentiment history and is broadcast as a transcript-update.
C9_FlushReentersEventPath ==
    (last.kind = "flush" /\ last.arg.called /\ ~NoTextThisWindow(last.arg.text)
       /\ last.room \in DOMAIN rooms /\ rooms[last.room] # {}) =>
        LET rd == room_data[last.room]
        IN /\ rd.transcript # <<>>
           /\ rd.transcript[Len(rd.transcript)].text = str_strip(last.arg.text)
           /\ rd.sentiment_history # <<>>
           /\ rd.sentiment_history[Len(rd.sentiment_history)].score
                = analyze_sentiment(str_strip(last.arg.text))
           /\ \E m \in out : m.event = "transcript-update"

\* C10: join(room, c) creates the room if absent, inserts c with engagement score
\* 0.5, sends c the members before the join minus c as existing peers, and notifies
\* exactly the other members, not c, of the new peer.
C10_JoinContract ==
    [][last'.kind = "join" =>
              LET sid == last'.sid
                  room == last'.room
                  before == IF room \in DOMAIN rooms THEN rooms[room] ELSE {}
              IN /\ room \in DOMAIN rooms' /\ room \in DOMAIN room_data'
                 /\ rooms'[room] = before \cup {sid}
                 /\ sid \in DOMAIN room_data'[room].participants
                 /\ room_data'[room].participants[sid].engagement_score * 2 = SCALE
                 /\ {m \in out' : m.event = "existing-peers"}
                      = {[event |-> "existing-peers", rcpt |-> sid,
                          data |-> [peers |-> before \ {sid}]]}
                 /\ {m \in out' : m.event = "new-peer"}
                      = {[event |-> "new-peer", rcpt |-> x, data |-> [peer |-> sid]]
                         : x \in before \ {sid}}]_vars

\* C10 witness: a connection has joined a room that two others were in
C10_Witness ==
    /\ last.kind = "join"
    /\ Cardinality(last.arg \ {last.sid}) = 2
    /\ Cardinality({m \in out : m.event = "new-peer"}) = 2

\* C11: after disconnect(c), c is a member of no room and has no participant record,
\* every room c was the last member of is deleted, and disconnecting c again (or a
\* connection that is in no room) changes no room state and sends no peer-left.
C11_DisconnectCleansUp ==
    [][last'.kind = "disconnect" =>
              LET sid == last'.sid
                  again == DisconnectLoop(DOMAIN rooms', rooms', room_data', sid, now')
                  was_in == {room \in DOMAIN rooms : sid \in rooms[room]}
              IN /\ \A room \in DOMAIN rooms' : sid \notin rooms'[room]
                 /\ \A room \in DOMAIN room_data' :
                       sid \notin DOMAIN room_data'[room].participants
                 /\ \A room \in was_in :
                       rooms[room] = {sid} =>
                           room \notin DOMAIN rooms' /\ room \notin DOMAIN room_data'
                 /\ \A room \in was_in :
                       rooms[room] # {sid} =>
                           room \in DOMAIN rooms' /\ rooms'[room] = rooms[room] \ {sid}
                 /\ again.rooms = rooms' /\ again.room_data = room_data'
                 /\ again.left = {} /\ again.deleted = {}
                 /\ {m.rcpt : m \in out'} \subseteq UNION {rooms[room] \ {sid} : room \in was_in}
                 /\ was_in = {} => rooms' = rooms /\ room_data' = room_data /\ out' = {}]_vars

\* C11 witness: the connection that disconnected was in two rooms, the last member
\* of one and not of the other, whose members were told
C11_Witness ==
    /\ last.kind = "disconnect"
    /\ Cardinality(last.arg) = 2
    /\ \E room \in last.arg : room \notin DOMAIN rooms
    /\ \E room \in last.arg : room \in DOMAIN rooms /\ rooms[room] # {}
    /\ \E m \in out : m.event = "peer-left" /\ m.data.sid = last.sid

RelayKinds == {"offer", "answer", "ice-candidate"}

\* C12: an offer, answer or ice-candidate event from f naming the connected
\* participant t produces exactly one message of the same kind, addressed to t only,
\* with the payload unchanged and from = f, and changes no room or participant state.
C12_RelayToTargetOnly ==
    [][(last'.kind \in RelayKinds /\ last'.arg.to \in connected) =>
              /\ out' = {[event |-> last'.kind, rcpt |-> last'.arg.to,
                          data |-> [payload |-> last'.arg.payload, from |-> last'.sid]]}
              /\ UNCHANGED <<rooms, room_data, sio_rooms, connected>>]_vars

\* C12 witness: an offer was relayed between two members of a room that has a third
C12_Witness ==
    /\ last.kind = "offer"
    /\ last.arg.to \in connected /\ last.arg.to # last.sid
    /\ \E room \in DOMAIN rooms :
          {last.sid, last.arg.to} \subseteq rooms[room] /\ Cardinality(rooms[room]) = 3
    /\ Cardinality(out) = 1

\* C13: a relay event whose target is missing or is not a connected participant
\* delivers the payload to no connection, not even the sender, and changes no state.
C13_RelayToAbsentTargetIsNoOp ==
    (last.kind \in RelayKinds /\ last.arg.to \notin connected) => out = {}

\* the text is empty or only whitespace
IsBlank(text) == \A i \in 1..Len(text) : Char(text, i) \in Whitespace

\* C14: for every input text the sentiment score is in [-1,1], and the empty or
\* whitespace-only text scores exactly 0.
C14_SentimentInRange ==
    last.kind = "sentiment" =>
        /\ last.arg.score >= 0 - SCALE /\ last.arg.score <= SCALE
        /\ IsBlank(last.arg.text) => last.arg.score = 0

\* C14 witness: a text whose words average more than 1 before the clamp was scored
C14_Witness ==
    /\ last.kind = "sentiment"
    /\ last.arg.words = <<"extremely", "good">>
    /\ last.arg.score = SCALE

\* C15: for every positive lexicon word w and every intensifier k, score("k w") is
\* strictly greater than score("w").
C15_IntensifierRaisesScore ==
    (last.kind = "sentiment" /\ Len(last.arg.words) = 2
       /\ last.arg.words[1] \in DOMAIN INTENSIFIERS
       /\ last.arg.words[2] \in POSITIVE_WORDS) =>
        last.arg.score > analyze_sentiment(last.arg.words[2])

\* C16: for every positive lexicon word w and every negation term n, score("n w") is
\* strictly less than score("w") and equals -0.8 times the contribution of w alone,
\* and score("w") is positive.
C16_NegationFlipsAndDampens ==
    (last.kind = "sentiment" /\ Len(last.arg.words) = 2
       /\ last.arg.words[1] \in NEGATIONS
       /\ last.arg.words[2] \in POSITIVE_WORDS) =>
        LET alone == analyze_sentiment(last.arg.words[2])
        IN /\ alone > 0
           /\ last.arg.score < alone
           /\ last.arg.score * 10 = (0 - 8) * alone

\* C17: the room's sentiment history holds at most 100 entries, they are the most
\* recent ones in arrival order (oldest evicted first), and each stored text snippet
\* is at most 100 characters.
C17_SentimentHistoryBounded ==
    [][(last'.kind = "transcript-text" /\ ~IsBlank(last'.arg.text)) =>
          LET room == last'.room
              text == str_strip(last'.arg.text)
              h == IF room \in DOMAIN room_data
                   THEN room_data[room].sentiment_history ELSE <<>>
              h2 == room_data'[room].sentiment_history
              kept == Len(h2) - 1
          IN /\ Len(h2) = (IF Len(h) >= 100 THEN 100 ELSE Len(h) + 1)
             /\ h2[Len(h2)].text = (IF Len(text) <= 100 THEN text ELSE SubSeq(text, 1, 100))
             /\ h2[Len(h2)].speaker = last'.sid
             /\ \A i \in 1..kept : h2[i] = h[Len(h) - kept + i]
             /\ \A i \in 1..Len(h2) : Len(h2[i].text) <= 100]_vars

\* C17 witness: a text longer than 100 characters was recorded in a full history
\* and the oldest entry was evicted
C17_Witness ==
    /\ last.kind = "transcript-text" /\ last.arg.text = LongText
    /\ LET h == room_data[last.room].sentiment_history
       IN /\ Len(h) = 100
          /\ h[1].timestamp = 2
          /\ Len(h[100].text) = 100

\* C18: each connection's attention history in a room holds at most 20 samples, the
\* 20 most recent ones in arrival order.
C18_AttentionHistoryBounded ==
    [][last'.kind = "attention" =>
          LET room == last'.room
              sid == last'.sid
              a == IF room \in DOMAIN room_data /\ sid \in DOMAIN room_data[room].attention_scores
                   THEN room_data[room].attention_scores[sid] ELSE <<>>
              a2 == room_data'[room].attention_scores[sid]
              kept == Len(a2) - 1
          IN /\ Len(a2) = (IF Len(a) >= 20 THEN 20 ELSE Len(a) + 1)
             /\ a2[Len(a2)] = last'.arg
             /\ \A i \in 1..kept : a2[i] = a[Len(a) - kept + i]]_vars

\* C18 witness: a sample was reported with 20 samples stored and the oldest left
C18_Witness ==
    /\ last.kind = "attention"
    /\ LET a == room_data[last.room].attention_scores[last.sid]
       IN Len(a) = 20 /\ a[1] = 2 /\ a[20] = last.arg

\* C19: an alert is reported iff the room has at least 3 sentiment entries and the
\* most recent 3 all score below -0.5, with severity high when their average is
\* below -0.7 and medium otherwise; a transcript-text event sends a sentiment-alert
\* to the room exactly when an alert is reported after the utterance is recorded.
C19_AlertIffThreeNegative ==
    \A room \in DOMAIN room_data :
        LET h == room_data[room].sentiment_history
            n == Len(h)
            expected == n >= 3 /\ \A i \in (n - 2)..n : h[i].score < 0 - 500
            severity == IF h[n - 2].score + h[n - 1].score + h[n].score < 0 - 2100
                        THEN "high" ELSE "medium"
            reported == detect_sentiment_alerts(room_data[room], 0 - 500, 3)
            alerts == {m \in out : m.event = "sentiment-alert"}
        IN /\ reported.alert = expected
           /\ expected => reported.severity = severity
           /\ (last.kind = "transcript-text" /\ last.room = room /\ ~IsBlank(last.arg.text)) =>
                 /\ {m.rcpt : m \in alerts}
                      = (IF expected THEN sio_rooms[room] \cap connected ELSE {})
                 /\ \A m \in alerts : m.data.alert /\ m.data.severity = severity

\* C19 witness: an utterance made the last three entries negative with an average
\* that is not below -0.7, and the room got a medium alert
C19_Witness ==
    /\ last.kind = "transcript-text"
    /\ \E m \in out : m.event = "sentiment-alert" /\ m.data.severity = "medium"
                      /\ m.rcpt = HistoryConn

\* C20: a transcript-text event with n >= 1 words from a participant of the room
\* sets the engagement score to min(1.0, old + min(0.1, n/50)) and adds exactly
\* n * 0.5 seconds to the speaking time.
C20_SpeakingUpdate ==
    [][(last'.kind = "transcript-text" /\ ~IsBlank(last'.arg.text)
          /\ last'.room \in DOMAIN room_data
          /\ last'.sid \in DOMAIN room_data[last'.room].participants) =>
          LET old == room_data[last'.room].participants[last'.sid]
              new == room_data'[last'.room].participants[last'.sid]
              n == Len(str_split(last'.arg.text))
              boost == IF 20 * n < 100 THEN 20 * n ELSE 100
          IN /\ new.engagement_score
                  = (IF old.engagement_score + boost < SCALE
                     THEN old.engagement_score + boost ELSE SCALE)
             /\ new.speaking_time * 2 = old.speaking_time * 2 + n * SCALE]_vars

\* C21: an attention event with value a in [0,1] from a participant of the room sets
\* the participant's engagement score to old * 0.8 + a * 0.2, from the latest sample a.
C21_AttentionSmoothing ==
    [][(last'.kind = "attention" /\ last'.arg >= 0 /\ last'.arg <= SCALE
          /\ last'.room \in DOMAIN room_data
          /\ last'.sid \in DOMAIN room_data[last'.room].participants) =>
          LET old == room_data[last'.room].participants[last'.sid]
              new == room_data'[last'.room].participants[last'.sid]
          IN new.engagement_score = (old.engagement_score * 8 + last'.arg * 2) \div 10]_vars

\* C22: for every (rtt, packetLoss, bandwidth), bandwidth 0 included, the classifier
\* returns the mode of the first matching rule: packetLoss >= 0.20 or bandwidth < 100
\* captions-only; else packetLoss >= 0.10 or bandwidth < 200 audio-only; else
\* rtt >= 300 or packetLoss >= 0.05 or bandwidth < 400 degrade-video; else normal.
C22_FirstMatchingRule ==
    (last.kind = "adapt" /\ DOMAIN last.arg.stats = TelemetryKeys) =>
        LET rtt == last.arg.stats["rtt"]
            packetLoss == last.arg.stats["packetLoss"]
            bandwidth == last.arg.stats["bandwidth"]
        IN last.arg.mode =
              (CASE packetLoss >= 200 \/ bandwidth < 100 -> "captions-only"
                 [] ~(packetLoss >= 200 \/ bandwidth < 100)
                    /\ (packetLoss >= 100 \/ bandwidth < 200) -> "audio-only"
                 [] ~(packetLoss >= 100 \/ bandwidth < 200)
                    /\ (rtt >= 300 \/ packetLoss >= 50 \/ bandwidth < 400) -> "degrade-video"
                 [] OTHER -> "normal")

\* the telemetry with rtt = 0, loss = 0 and bandwidth = 1000 put in for missing fields
WithDefaults(stats) ==
    [key \in TelemetryKeys |->
        IF key \in DOMAIN stats THEN stats[key] ELSE IF key = "bandwidth" THEN 1000 ELSE 0]

\* C23: a missing field is treated as rtt = 0, loss = 0 or bandwidth = 1000, empty
\* telemetry classifies as normal, and (0, 0, 1000) gives normal, (0, 0.25, 1000)
\* captions-only, (0, 0.12, 1000) audio-only and (350, 0, 1000) degrade-video.
C23_MissingFieldDefaults ==
    last.kind = "adapt" =>
        LET full == WithDefaults(last.arg.stats)
            at(rtt, loss, bw) == full["rtt"] = rtt /\ full["packetLoss"] = loss
                                 /\ full["bandwidth"] = bw
        IN /\ last.arg.mode = evaluate_network(full)
           /\ last.arg.stats = EmptyFn => last.arg.mode = "normal"
           /\ at(0, 0, 1000) => last.arg.mode = "normal"
           /\ at(0, 250, 1000) => last.arg.mode = "captions-only"
           /\ at(0, 120, 1000) => last.arg.mode = "audio-only"
           /\ at(350, 0, 1000) => last.arg.mode = "degrade-video"

\* C23 witness: telemetry that has only a packet loss of 0.12 was classified audio-only
C23_Witness ==
    /\ last.kind = "adapt"
    /\ DOMAIN last.arg.stats = {"packetLoss"} /\ last.arg.stats["packetLoss"] = 120
    /\ last.arg.mode = "audio-only"

\* C24: for a network-stats event the sample stored as the sender's latest
\* NetworkSample holds the rtt, packet loss and bandwidth the client reported, and
\* the emitted adaptation mode is the classification of the stored sample.
C24_StoredSampleIsClassified ==
    last.kind = "network-stats" =>
        LET sample == room_data[last.room].network_stats[last.sid]
            stored == [rtt |-> sample.rtt, packetLoss |-> sample.packet_loss,
                       bandwidth |-> sample.bandwidth]
        IN /\ stored = WithDefaults(last.arg)
           /\ \A m \in out : m.event = "network-adaptation" =>
                                m.data.mode = evaluate_network(stored)

\* board lists every participant of rd once, in non-increasing order of engagement
\* score, with the titles of the leaderboard
IsLeaderboard(board, rd) ==
    LET n == Len(board)
    IN /\ n = Cardinality(DOMAIN rd.participants)
       /\ {board[i].sid : i \in 1..n} = DOMAIN rd.participants
       /\ \A i \in 1..n :
             board[i].engagement_score = rd.participants[board[i].sid].engagement_score
       /\ \A i \in 1..(n - 1) : board[i].engagement_score >= board[i + 1].engagement_score
       /\ \A i \in 1..n :
             /\ board[i].title = "Meeting Champ" <=> (n >= 2 /\ i = 1)
             /\ board[i].title = "Silent Listener" <=> (n >= 2 /\ i = n)
             /\ (n = 1 \/ (1 < i /\ i < n)) =>
                   board[i].title = "#" \o ToString(i) \o " Participant"

\* C25: the leaderboard lists every participant of the room exactly once in
\* non-increasing order of engagement score; with two or more participants the first
\* entry alone is Meeting Champ, the last alone Silent Listener and position i in
\* between "#i Participant"; one participant alone gets neither special title.
C25_LeaderboardOrderAndTitles ==
    /\ \A room \in DOMAIN room_data :
          \A order \in DictOrders(DOMAIN room_data[room].participants) :
              IsLeaderboard(get_room_leaderboard(room_data[room], order), room_data[room])
    /\ last.kind = "engagement" => IsLeaderboard(last.arg.leaderboard, room_data[last.room])

\* C25 witness: the route listed three participants with three different scores, the
\* one who joined first at the bottom and "#2 Participant" in the middle
C25_Witness ==
    /\ last.kind = "engagement"
    /\ Len(last.arg.leaderboard) = 3
    /\ last.arg.leaderboard[3].sid = "c1"
    /\ last.arg.leaderboard[1].engagement_score > last.arg.leaderboard[2].engagement_score
    /\ last.arg.leaderboard[2].engagement_score > last.arg.leaderboard[3].engagement_score
    /\ last.arg.leaderboard[2].title = "#2 Participant"

\* dist gives each participant of rd its share of the total speaking time as a
\* percentage (in 1/SCALE of a percent, rounded down), and 0 when the total is 0
IsSpeakingDistribution(dist, rd) ==
    LET sids == DOMAIN rd.participants
        total == SumOver([sid \in sids |-> rd.participants[sid].speaking_time], sids)
        sum == SumOver([sid \in sids |-> dist[sid].percentage], sids)
    IN /\ DOMAIN dist = sids
       /\ total > 0 =>
             /\ \A sid \in sids :
                   /\ dist[sid].percentage * total <= rd.participants[sid].speaking_time * 100 * SCALE
                   /\ (dist[sid].percentage + 1) * total > rd.participants[sid].speaking_time * 100 * SCALE
             /\ sum <= 100 * SCALE /\ sum > 100 * SCALE - Cardinality(sids)
       /\ total = 0 => \A sid \in sids : dist[sid].percentage = 0

\* C26: speakingDistribution gives each participant speakingTime / total * 100, so
\* the percentages sum to 100 (up to the rounding of each share) whenever the total
\* speaking time is positive, and gives every participant 0 when the total is 0.
C26_SpeakingDistribution ==
    /\ \A room \in DOMAIN room_data :
          IsSpeakingDistribution(get_speaking_distribution(room_data[room]), room_data[room])
    /\ last.kind = "engagement" =>
          IsSpeakingDistribution(last.arg.speaking_distribution, room_data[last.room])

\* C26 witness: the route reported a quarter and three quarters for two speakers and
\* 0 for a third participant
C26_Witness ==
    /\ last.kind = "engagement"
    /\ DOMAIN last.arg.speaking_distribution = Conns
    /\ \E a \in Conns, b \in Conns, c \in Conns :
          /\ last.arg.speaking_distribution[a].percentage = 25 * SCALE
          /\ last.arg.speaking_distribution[b].percentage = 75 * SCALE
          /\ last.arg.speaking_distribution[c].percentage = 0

\* C27: shouldNudge(room, p) is true iff p is a participant of the room, the time
\* since p's lastActivity is strictly greater than 5 minutes and p's engagement
\* score is strictly below 0.3; the /nudge operation nudges exactly those.
C27_NudgeIffInactiveAndLow ==
    /\ \A room \in DOMAIN room_data, p \in Conns :
          should_nudge_participant(room_data[room], p, DEFAULT_THRESHOLD_MINUTES, now)
            <=> /\ p \in DOMAIN room_data[room].participants
                /\ now - room_data[room].participants[p].last_activity > 5 * 60
                /\ room_data[room].participants[p].engagement_score * 10 < 3 * SCALE
    /\ last.kind = "nudge" =>
          /\ last.arg = {p \in Conns :
                            should_nudge_participant(room_data[last.room], p,
                                                     DEFAULT_THRESHOLD_MINUTES, now)}
          /\ {m.rcpt : m \in out} = last.arg
          /\ \A m \in out : m.event = "nudge"

\* C27 witness: /nudge nudged c1, inactive and at a low score, and not c2, as long
\* inactive but at score 0.5
C27_Witness ==
    /\ last.kind = "nudge"
    /\ last.arg = {"c1"}
    /\ "c2" \in DOMAIN room_data[last.room].participants
    /\ now - room_data[last.room].participants["c2"].last_activity > NUDGE_SECONDS
    /\ room_data[last.room].participants["c2"].engagement_score * 2 = SCALE
    /\ \E m \in out : m.rcpt = "c1"

\* C28: every transcript-text event with non-blank text appends exactly one entry at
\* the end of the room's transcript, with the sentiment score of the utterance
\* attached; while the room exists no operation removes, rewrites or reorders earlier
\* entries; the entries are in arrival order, whatever timestamps the clients supply.
C28_TranscriptAppendOnly ==
    [][/\ \A room \in DOMAIN room_data \cap DOMAIN room_data' :
             /\ Len(room_data'[room].transcript) >= Len(room_data[room].transcript)
             /\ SubSeq(room_data'[room].transcript, 1, Len(room_data[room].transcript))
                  = room_data[room].transcript
             /\ Len(room_data'[room].transcript) > Len(room_data[room].transcript) =>
                   last'.kind = "transcript-text" /\ last'.room = room
       /\ (last'.kind = "transcript-text" /\ ~IsBlank(last'.arg.text)) =>
             LET room == last'.room
                 before == IF room \in DOMAIN room_data
                           THEN room_data[room].transcript ELSE <<>>
                 after == room_data'[room].transcript
                 text == str_strip(last'.arg.text)
             IN /\ Len(after) = Len(before) + 1
                /\ SubSeq(after, 1, Len(before)) = before
                /\ after[Len(after)].text = text
                /\ after[Len(after)].sid = last'.sid
                /\ after[Len(after)].ts = (IF last'.arg.ts = 0 THEN now ELSE last'.arg.ts)
                /\ after[Len(after)].sentiment = analyze_sentiment(text)
       /\ (last'.kind = "transcript-text" /\ IsBlank(last'.arg.text)) =>
             room_data' = room_data]_vars

\* C28 witness: an utterance was appended behind one with a later timestamp
C28_Witness ==
    /\ last.kind = "transcript-text"
    /\ last.room \in DOMAIN room_data
    /\ LET transcript == room_data[last.room].transcript
       IN /\ Len(transcript) = 2
          /\ transcript[1].ts > transcript[2].ts
          /\ transcript[2].sentiment = SCALE

\* the latest step was a flush that took the chunk with this sequence number, which
\* is now neither queued nor buffered
FlushedNow(seq) ==
    /\ last.kind = "flush"
    /\ \E i \in 1..Len(last.arg.buffer) : last.arg.buffer[i].seq = seq
    /\ ~InQueue(seq) /\ ~InBuffer(seq)

\* the places (queue positions and buffer positions) that hold the chunk
Holders(seq) ==
    Cardinality({i \in 1..Len(trans_rooms[DrainRoom].chunk_queue) :
                    trans_rooms[DrainRoom].chunk_queue[i].seq = seq})
    + SumOver([w \in DOMAIN workers |->
                  Cardinality({i \in 1..Len(workers[w].buffer) : workers[w].buffer[i].seq = seq})],
              DOMAIN workers)

\* C29: under fair scheduling of the worker and advancing time, every chunk put on
\* the room's queue is eventually taken off it and included in exactly one flush, at
\* the latest when a queue wait times out after the flush interval: a chunk is never
\* held twice, a queue wait that times out on a non-empty buffer flushes it, and a
\* queued chunk leads to the flush that takes it.
C29_ChunkEventuallyFlushed ==
    /\ [](\A c \in DrainChunks : Holders(c[2]) <= 1)
    /\ [][(now' = now /\ workers' # workers /\ trans_rooms'[DrainRoom].chunk_queue = <<>>
             /\ trans_rooms[DrainRoom].chunk_queue = <<>>
             /\ \A w \in DOMAIN workers :
                   workers'[w] # workers[w] => workers[w].buffer # <<>>) =>
              /\ last'.kind = "flush"
              /\ workers'[last'.arg.worker].buffer = <<>>
              /\ last'.arg.buffer = workers[last'.arg.worker].buffer]_vars
    /\ \A c \in DrainChunks : InQueue(c[2]) ~> FlushedNow(c[2])

\* C29 witness: a flush took both chunks, the later one behind a chunk that had
\* waited in the buffer for the whole flush interval
C29_Witness ==
    /\ last.kind = "flush"
    /\ Len(last.arg.buffer) = 2
    /\ now - last.arg.buffer[1].ts >= FLUSH_SECONDS
    /\ \A c \in DrainChunks : FlushedNow(c[2])

\* C30: under any interleaving of join, leave and disconnect handlers on one room, a
\* connection whose join has completed and that has not left or disconnected since
\* is in the room's membership set and in its participant map.
C30_CompletedJoinStaysMember ==
    \A sid \in Conns : \A room \in handlers[sid].joined :
        /\ room \in DOMAIN rooms /\ sid \in rooms[room]
        /\ room \in DOMAIN room_data /\ sid \in DOMAIN room_data[room].participants

C36_StopLeavesNoConsumer ==
    /\ last.kind = "stop-worker" => ThreadsOf(last.room) = {}
    /\ \A room \in AudioRooms : Cardinality(ThreadsOf(room)) <= 1

\* C32: an offer, answer or ice-candidate is delivered only between participants of
\* one room: every connection a relayed payload reaches shares a room of the registry
\* with the sender.
C32_RelayWithinRoom ==
    last.kind \in RelayKinds =>
       \A m \in out : \E room \in DOMAIN rooms : {last.sid, m.rcpt} \subseteq rooms[room]

\* the events that name a room
RoomEventKinds ==
    {"join", "leave", "transcript-text", "attention", "network-stats", "audio-chunk",
     "submit-chunk"}

\* the state the registry and the pipeline hold for a room (None where they hold none)
RoomState(rs, rd, tr, room) ==
    [members |-> Get(rs, room, None), record |-> Get(rd, room, None),
     pipeline |-> Get(tr, room, None)]

\* C33: a join, leave, transcript-text, attention, network-stats or audio-chunk event
\* (and a chunk handed to the pipeline) that names room R leaves the membership,
\* participants, transcript, sentiment history, attention history, network samples
\* and chunk queue of every other room unchanged.
C33_OtherRoomsUnchanged ==
    [][last'.kind \in RoomEventKinds =>
          \A room \in RoomKeys \ {last'.room} :
             RoomState(rooms', room_data', trans_rooms', room)
                = RoomState(rooms, room_data, trans_rooms, room)]_vars

\* C33 witness: an utterance was stored in one room while the other room holds a
\* participant, an attention history and a queued chunk
C33_Witness ==
    /\ last.kind = "transcript-text" /\ last.room = "r1"
    /\ "r1" \in DOMAIN room_data /\ Len(room_data["r1"].transcript) = 1
    /\ "r2" \in DOMAIN room_data /\ "r2" \in DOMAIN trans_rooms
    /\ "c1" \in DOMAIN room_data["r2"].participants
    /\ "c1" \in DOMAIN room_data["r2"].attention_scores
    /\ trans_rooms["r2"].chunk_queue # <<>>

\* the tokens of a text: lowercased, punctuation replaced by blanks, split
TokensOf(text) == str_split(sub_punctuation(str_lower(text)))

\* +1 for a positive lexicon token, -1 for a negative one, 0 for any other
LexiconSign(token) ==
    IF token \in POSITIVE_WORDS THEN 1 ELSE IF token \in NEGATIVE_WORDS THEN 0 - 1 ELSE 0

\* the contribution of token i in 1/SCALE: its sign times the factor (in tenths) of
\* an intensifier right before it, times -0.8 when one of the two tokens before it
\* is a negation
Contribution(tokens, i) ==
    LET factor == IF i > 1 /\ tokens[i - 1] \in DOMAIN INTENSIFIERS
                  THEN INTENSIFIERS[tokens[i - 1]] ELSE 10
        negated == \/ i > 1 /\ tokens[i - 1] \in NEGATIONS
                   \/ i > 2 /\ tokens[i - 2] \in NEGATIONS
    IN (LexiconSign(tokens[i]) * factor * (IF negated THEN 0 - 8 ELSE 10) * SCALE) \div 100

RECURSIVE ContributionsUpTo(_, _)
ContributionsUpTo(tokens, n) ==
    IF n = 0 THEN 0 ELSE ContributionsUpTo(tokens, n - 1) + Contribution(tokens, n)

\* clamp to [-1,1] of the sum of the contributions over the number of tokens whose
\* contribution is not zero; 0 when there is no such token
ExpectedScore(tokens) ==
    LET bearing == Cardinality({i \in 1..Len(tokens) : Contribution(tokens, i) # 0})
        mean == ContributionsUpTo(tokens, Len(tokens)) \div bearing
    IN IF bearing = 0 THEN 0
       ELSE IF mean > SCALE THEN SCALE ELSE IF mean < 0 - SCALE THEN 0 - SCALE ELSE mean

\* C34: for every token sequence the sentiment score is the clamp to [-1,1] of the
\* sum of the token contributions divided by the number of tokens with a non-zero
\* contribution (a lexicon token contributes +1 or -1, times the factor of an
\* intensifier right before it, times -0.8 when one of the two tokens before it is a
\* negation), and 0 when no token bears sentiment.
C34_ScoreFormula ==
    last.kind = "sentiment" => last.arg.score = ExpectedScore(TokensOf(last.arg.text))

\* C34 witness: a positive word with a negation two tokens before it scored -0.8
C34_Witness ==
    /\ last.kind = "sentiment"
    /\ last.arg.words = <<"not", "idea,", "Good!">>
    /\ last.arg.score = (0 - 8) * (SCALE \div 10)

\* C40: every negation term of the vocabulary, the contractions included, flips the
\* contribution of a sentiment word that follows it: a negation term in front of a
\* positive word scores below 0, as in score("don't like") < 0.
C40_EveryNegationTermFlips ==
    (last.kind = "sentiment" /\ Len(last.arg.words) = 2
       /\ last.arg.words[1] \in NEGATIONS
       /\ last.arg.words[2] \in POSITIVE_WORDS) => last.arg.score < 0

\* the audio is not well-formed base64: b64decode rejects it, or it holds characters
\* outside the alphabet
IsMalformed(b64) == ~b64.valid \/ "stray" \in DOMAIN b64

\* C35: an audio-chunk submission with empty audio or with malformed base64 puts
\* nothing on any queue and leaves the queues, transcripts and workers of all rooms
\* unchanged.
C35_BadAudioChangesNothing ==
    [][(last'.kind \in {"submit-chunk", "audio-chunk"}
          /\ (last'.arg.audio.n = 0 \/ IsMalformed(last'.arg.audio))) =>
             UNCHANGED <<trans_rooms, workers, audio_workers>>]_vars

\* the members and the participant ids the registry holds for a room key
MembersOf(room) == Get(rooms, room, {})

ParticipantsOf(room) ==
    IF room \in DOMAIN room_data THEN DOMAIN room_data[room].participants ELSE {}

\* C37: in every state reached by join, leave and disconnect events executed one
\* after the other, for every room key the membership set equals the key set of the
\* room's participant map (a set and a map, so no connection id is in a room twice).
C37_MembersAreParticipants ==
    \A room \in RoomKeys : MembersOf(room) = ParticipantsOf(room)

\* C37 witness: one of three members has left a room and two remain
C37_Witness ==
    /\ last.kind = "leave"
    /\ last.room \in DOMAIN rooms /\ last.room \in DOMAIN room_data
    /\ Cardinality(rooms[last.room]) = 2 /\ last.sid \notin rooms[last.room]
    /\ DOMAIN room_data[last.room].participants = rooms[last.room]
    /\ \E other \in RoomKeys \ {last.room} : last.sid \in MembersOf(other)

\* C38: every connection id that keys an attention history or a network sample of a
\* room is a current participant of that room.
C38_ActivityKeysAreParticipants ==
    \A room \in DOMAIN room_data :
        /\ DOMAIN room_data[room].attention_scores \subseteq DOMAIN room_data[room].participants
        /\ DOMAIN room_data[room].network_stats \subseteq DOMAIN room_data[room].participants

\* C39: a transcript-text event from a connection that is not a participant of the
\* named room leaves the room's transcript and sentiment history unchanged and
\* broadcasts nothing to the room.
C39_OutsiderTextIsIgnored ==
    [][(last'.kind = "transcript-text" /\ last'.sid \notin ParticipantsOf(last'.room)) =>
          /\ out' = {}
          /\ last'.room \in DOMAIN room_data =>
                (/\ last'.room \in DOMAIN room_data'
                 /\ room_data'[last'.room].transcript = room_data[last'.room].transcript
                 /\ room_data'[last'.room].sentiment_history
                       = room_data[last'.room].sentiment_history)
          /\ last'.room \notin DOMAIN room_data =>
                (last'.room \in DOMAIN room_data' =>
                    /\ room_data'[last'.room].transcript = <<>>
                    /\ room_data'[last'.room].sentiment_history = <<>>)]_vars

====
